---- MODULE Spec2Model ----
(***************************************************************************)
(* The batch-analysis engine of cookie-fun-hackathon: the `analyze`        *)
(* command runs RecursionPipeline(CookieFunBatchedAnalysisPipeline) over    *)
(* the agents of one ingestion run.  The model follows                      *)
(*   src/analysis/pipelines/cookie_fun_batched_analysis.py                  *)
(*   src/analysis/pipelines/recursion_pipeline.py                           *)
(*   src/app/storage/cookie_fun.py                                          *)
(*   src/app/analysis/cookie_fun.py                                         *)
(***************************************************************************)
EXTENDS Integers, Sequences, FiniteSets, TLC

\* ------------------------------------------------------------------ bounds
MaxId == 2
MaxInputLen == 3
MaxBatchSize == 2
MaxMaxBatches == 3
MaxConcurrency == 2
MaxMaxDepth == 2
MaxStopLimit == 1
MaxRuns == 2
ShallowMaxDepth == 1
RecMaxInputLen == 2
RerunMaxInputLen == 2
RerunMaxDepth == 1
MaxFpLen == 3
MaxComposeLen == 2
MaxPages == 4
MaxPageSize == 2

\* ------------------------------------------------------- values and helpers
Ids == 1..MaxId
None == [type |-> "NoneType"]
IngestionRunId == 1
Texts == {"t1"}
AnalysisType == "unfiltered:abc123"

SeqsUpTo(S, n) == UNION {[1..k -> S] : k \in 0..n}

Range(s) == {s[i] : i \in DOMAIN s}

RECURSIVE Insert(_, _)
Insert(x, s) ==
    IF s = <<>> THEN <<x>>
    ELSE IF x < Head(s) THEN <<x>> \o s
    ELSE <<Head(s)>> \o Insert(x, Tail(s))

RECURSIVE sorted(_)
sorted(s) == IF s = <<>> THEN <<>> ELSE Insert(Head(s), sorted(Tail(s)))

DigitChars == <<"0", "1", "2", "3", "4", "5", "6", "7", "8", "9">>

RECURSIVE str(_)
str(n) ==
    IF n < 10 THEN <<DigitChars[n + 1]>>
    ELSE str(n \div 10) \o <<DigitChars[(n % 10) + 1]>>

RECURSIVE join(_, _)
join(sep, parts) ==
    IF parts = <<>> THEN <<>>
    ELSE IF Len(parts) = 1 THEN parts[1]
    ELSE parts[1] \o sep \o join(sep, Tail(parts))

serialize_agent_ids_unsorted(agent_ids) ==
    join(<<",">>, [i \in DOMAIN agent_ids |-> str(agent_ids[i])])

serialize_agent_ids(agent_ids) ==
    join(<<",">>, [i \in DOMAIN sorted(agent_ids) |-> str(sorted(agent_ids)[i])])

\* dict merge {**a, **b}: keys of b win
Merge(a, b) ==
    [k \in (DOMAIN a) \cup (DOMAIN b) |-> IF k \in DOMAIN b THEN b[k] ELSE a[k]]

EmptyDict == [k \in {} |-> 0]

\* the items of this model are HistoricAgentRecord rows of one ingestion run
ItemId(record) == record

VARIABLES
    input,          \* the agents of the ingestion run, the depth-0 input
    filter_agents,  \* the set of item ids the filter accepts
    batch_size, max_batches, concurrency, ignore_cached,
    max_depth, stop_limit,
    runNo,          \* which invocation of `analyze` this is
    pc,             \* where the run stands
    depth,          \* the depth argument of the innermost _run
    frames,         \* the _run frames, frames[d + 1] the frame of depth d
    pos,            \* how many items batch formation has pulled from its input
    current_batch, batches, metadata,
    index,          \* the loop variable of _run_batches
    tasks,          \* the tasks of the current wave
    aborted,        \* the TaskGroup has cancelled its remaining tasks
    completed,      \* the slots of the wave in completion order
    yielded,        \* the slots of the wave already yielded
    store,          \* the batch_analysis_records table, store[i].id = i
    out,            \* what the consumer of pipeline.run has received this run
    hist,           \* per depth: what _run has done at that depth this run
    events,         \* every task start, collaborator call and insert so far
    runLog,         \* the finished runs: configuration, outcome, output
    fpA, fpB, fpKeyA, fpKeyB,
    caller_metadata,  \* the metadata argument of the outermost run
    stageA, stageB,   \* the operands of `stageA | stageB`
    composed,         \* the ComposedPipeline the expression evaluates to
    cInput, cMetadata,\* the arguments of its run
    cpc,              \* where that run stands
    stream,           \* the generator first_pipeline.run(input, metadata)
    second,           \* the generator second_pipeline.run(stream, metadata)
    cOut,             \* what the consumer of the composed run has received
    agent_answers,    \* the texts the agent may answer a call with
    agent_run,        \* historic_agent_records: the ingestion run of each agent
    max_pages,        \* ingest: the end of range(1, max_pages)
    page_size,        \* ingest: the limit passed to fetch_page
    ipc,              \* ingest: where the call stands
    page,             \* ingest: the loop variable
    fetch_log,        \* the pages fetch_page was called for, in call order
    responses,        \* what fetch_page returned, call by call
    agent_rows        \* the agents ingest has committed, in insert order

config == <<input, filter_agents, batch_size, max_batches, concurrency, max_depth, stop_limit,
            caller_metadata, agent_answers, agent_run>>
batching == <<pos, current_batch, batches, metadata, index, tasks, aborted, completed, yielded>>
fp == <<fpA, fpB, fpKeyA, fpKeyB>>
compose == <<stageA, stageB, composed, cInput, cMetadata, cpc, stream, second, cOut>>
ingest == <<max_pages, page_size, ipc, page, fetch_log, responses, agent_rows>>
vars == <<config, ignore_cached, runNo, pc, depth, frames, batching, store, out, hist, events,
          runLog, fp, compose, ingest>>

\* record.ingestion_run_id
ItemRunId(record) == agent_run[ItemId(record)]

agents_of_all_runs(run_id) == Ids

\* ingestion_run.agents: the agents of one ingestion run
agents(run_id) == {i \in Ids : agent_run[i] = run_id}

\* ------------------------------------------------------------ the store
\* a row of batch_analysis_records as the ORM object the engine handles
BatchAnalysisRecord(id, run_id, key, atype, analysis, top, meta, created) ==
    [type |-> "BatchAnalysisRecord", id |-> id, ingestion_run_id |-> run_id,
     input_agent_ids |-> key, analysis_type |-> atype, analysis |-> analysis,
     top_agent_ids |-> top, meta |-> meta, created_at |-> created]

Matches_other_ids(r, analysis_type, run_id, input_agent_ids) ==
    /\ r.ingestion_run_id = run_id
    /\ r.input_agent_ids # input_agent_ids
    /\ r.analysis_type = analysis_type

Matches(r, analysis_type, run_id, input_agent_ids) ==
    /\ r.ingestion_run_id = run_id
    /\ r.input_agent_ids = input_agent_ids
    /\ r.analysis_type = analysis_type

query_none(st, analysis_type, run_id, input_agent_ids) == {None}

query_last_row(st, analysis_type, run_id, input_agent_ids) ==
    IF st # <<>> /\ Matches(st[Len(st)], analysis_type, run_id, input_agent_ids)
    THEN {st[Len(st)]}
    ELSE {None}

\* what .first() of the ORDER BY created_at DESC query can be: any matching row
\* with the greatest created_at (rows of one second tie); {None} when none matches
query(st, analysis_type, run_id, input_agent_ids) ==
    LET found == {i \in DOMAIN st : Matches(st[i], analysis_type, run_id, input_agent_ids)}
        latest == {i \in found : \A j \in found : st[j].created_at <= st[i].created_at}
    IN  IF found = {} THEN {None} ELSE {st[i] : i \in latest}

\* func.now() of an insert, in whole seconds.  A query compares created_at only
\* among the rows it matches, so the model counts the seconds per key: a row is
\* created in the second of the newest row of its key, or in a later one
Now(st, analysis_type, run_id, input_agent_ids) ==
    LET found == {i \in DOMAIN st : Matches(st[i], analysis_type, run_id, input_agent_ids)}
    IN  IF found = {} THEN {1}
        ELSE LET last == st[CHOOSE i \in found : \A j \in found : j <= i].created_at
             IN  {last, last + 1}

\* ----------------------------------------------------- the batching stage
DefaultMetadata_signature ==
    [batch_size |-> 15, max_batches |-> 20, concurrency |-> 10, ignore_cached |-> FALSE]

DefaultMetadata ==
    [batch_size |-> batch_size, max_batches |-> max_batches,
     concurrency |-> concurrency, ignore_cached |-> ignore_cached]

extra_metadata == [model |-> "o3-mini"]

RunMetadata_defaults_win(md) == Merge(md, Merge(DefaultMetadata, extra_metadata))

RunMetadata(md) == Merge(Merge(DefaultMetadata, extra_metadata), md)

Accepts_all(record) == TRUE

Accepts(record) == ItemId(record) \in filter_agents

BatchFull(cb) == Len(cb) >= batch_size

CapReached(bs) == Len(bs) >= max_batches

SealRest_always(bs, cb) == Append(bs, cb)

SealRest(bs, cb) == IF cb # <<>> THEN Append(bs, cb) ELSE bs

Min(a, b) == IF a < b THEN a ELSE b

batch_chunk_from_start(bs, idx) == SubSeq(bs, 1, Min(concurrency, Len(bs)))

batch_chunk_unbounded(bs, idx) == SubSeq(bs, idx + 1, Len(bs))

batch_chunk_overlapping(bs, idx) == SubSeq(bs, idx + 1, Min(idx + concurrency + 1, Len(bs)))

batch_chunk_repeats(bs, idx) ==
    [k \in 1..(Min(idx + concurrency, Len(bs)) - idx) |-> bs[idx + 1]]

batch_chunk(bs, idx) == SubSeq(bs, idx + 1, Min(idx + concurrency, Len(bs)))

CacheHit_never(record) == FALSE

CacheHit_inverted(record) == record # None /\ ignore_cached

CacheHit(record) == record # None /\ ~ignore_cached

\* SelectTop may answer any ordered shortlist of the batch; three of them
TopChoices(batch) ==
    {<<>>, <<ItemId(batch[1])>>, [i \in DOMAIN batch |-> ItemId(batch[i])]}

NewTask(batch) ==
    [batch |-> batch, pc |-> "created", key |-> <<>>, analysis |-> "", result |-> None]

Resolved(t) == t.pc \in {"done", "failed", "cancelled"}

\* the TaskGroup block is left normally once every task of the wave has returned
AllResolved == \A i \in DOMAIN tasks : Resolved(tasks[i])

AllDone == \A i \in DOMAIN tasks : tasks[i].pc = "done"

InFlight == {i \in DOMAIN tasks : ~Resolved(tasks[i])}

Event(op, slot, key, id) ==
    [op |-> op, run |-> runNo, depth |-> depth, index |-> index, slot |-> slot,
     key |-> key, id |-> id]

\* --------------------------------------------------- the recursion stage
PyTuple(a, b) == [type |-> "tuple", first |-> a, second |-> b]

DepthExceeded_off_by_one(d) == d > max_depth

DepthExceeded_never(d) == FALSE

DepthExceeded_after_one(d) == d >= 1

DepthExceeded(d) == d >= max_depth

stopper_strict(analysis_records) == Len(analysis_records) < stop_limit

stopper(analysis_records) == Len(analysis_records) <= stop_limit

RECURSIVE Concat(_)
Concat(ss) == IF ss = <<>> THEN <<>> ELSE Head(ss) \o Concat(Tail(ss))

\* the agent of the ingestion run with the given id, for every top id of every
\* record, in order
AgentById(project_id) ==
    LET at == {i \in DOMAIN input : ItemId(input[i]) = project_id}
    IN  input[CHOOSE i \in at : \A j \in at : i <= j]

mapper(analysis_records) ==
    Concat([i \in DOMAIN analysis_records |->
              [j \in DOMAIN analysis_records[i].top_agent_ids |->
                 AgentById(analysis_records[i].top_agent_ids[j])]])

RecursionMetadata_caller_wins(md, d) == Merge([recursion_depth |-> d], md)

RecursionMetadata(md, d) == Merge(md, [recursion_depth |-> d])

\* what _run at depth k yields for an item its inner stage produced at depth d
RECURSIVE YieldedAt(_, _, _)
YieldedAt(item, d, k) ==
    IF k = d THEN PyTuple(item, frames[d + 1].input_list)
    ELSE PyTuple(YieldedAt(item, d, k + 1), frames[k + 1].sub_input_list)

NoHist == [entered |-> 0, materialized |-> 0, inner |-> 0, stopper |-> 0, mapper |-> 0,
           decision |-> "none", input_list |-> <<>>]

Terminal == {"Stopped", "MaxDepthExceeded", "Failed"}

\* ------------------------------------------------------------------ Init
IdleBatching ==
    /\ pos = 0 /\ current_batch = <<>> /\ batches = <<>> /\ metadata = EmptyDict
    /\ index = 0 /\ tasks = <<>> /\ aborted = FALSE /\ completed = <<>> /\ yielded = {}

IdleFp == fpA = <<>> /\ fpB = <<>> /\ fpKeyA = <<>> /\ fpKeyB = <<>>

IdleCompose ==
    /\ stageA = "none" /\ stageB = "none" /\ composed = None
    /\ cInput = <<>> /\ cMetadata = EmptyDict /\ cpc = "idle"
    /\ stream = None /\ second = None /\ cOut = <<>>

IdleIngest ==
    /\ max_pages = 0 /\ page_size = 0 /\ ipc = "idle" /\ page = 0
    /\ fetch_log = <<>> /\ responses = <<>> /\ agent_rows = <<>>

\* the state after the pipeline is constructed over an ingestion run, within the
\* given bounds: any agents, either filter, any configuration, an empty table
Configured(maxLen, maxDepth, callers, limits, answers, runs) ==
    /\ agent_run \in [Ids -> runs]
    /\ input \in SeqsUpTo(agents(IngestionRunId), maxLen)
    /\ filter_agents \in {Ids, Ids \ {1}}
    /\ batch_size \in 1..MaxBatchSize
    /\ max_batches \in 0..MaxMaxBatches
    /\ concurrency \in 1..MaxConcurrency
    /\ ignore_cached \in BOOLEAN
    /\ max_depth \in 0..maxDepth
    /\ stop_limit \in limits
    /\ caller_metadata \in callers
    /\ agent_answers = answers
    /\ runNo = 1
    /\ pc = "Enter"
    /\ depth = 0
    /\ frames = <<>>
    /\ IdleBatching
    /\ store = <<>>
    /\ out = <<>>
    /\ hist = [d \in 0..MaxMaxDepth |-> NoHist]
    /\ events = {}
    /\ runLog = <<>>
    /\ IdleFp
    /\ IdleCompose
    /\ IdleIngest

\* the stopper the application builds: a threshold on the number of records
Constructed(maxLen, maxDepth, callers) ==
    Configured(maxLen, maxDepth, callers, 0..MaxStopLimit, Texts, {IngestionRunId})

Init == Constructed(MaxInputLen, ShallowMaxDepth, {EmptyDict})

InitRec == Constructed(RecMaxInputLen, MaxMaxDepth, {EmptyDict})

InitRerun == Constructed(RerunMaxInputLen, RerunMaxDepth, {EmptyDict})

\* metadata a caller may pass to run: none, or maps that name keys of the stage's
\* defaults, of extra_metadata, of the recursion stage, and a key of their own
CallerMetadatas ==
    {EmptyDict, [batch_size |-> 99, origin |-> "cli"], [model |-> "caller", recursion_depth |-> 5]}

InitMeta == Constructed(RecMaxInputLen, MaxMaxDepth, CallerMetadatas)

\* RecursionPipeline takes any stopper: a threshold of -1 is a stopper that
\* never returns true
InitLive ==
    Configured(RecMaxInputLen, MaxMaxDepth, {EmptyDict}, (-1)..MaxStopLimit, Texts,
               {IngestionRunId})

\* an agent whose answers differ from call to call
TwoTexts == {"t1", "t2"}

InitTexts ==
    Configured(RecMaxInputLen, ShallowMaxDepth, {EmptyDict}, 0..MaxStopLimit, TwoTexts,
               {IngestionRunId})

\* a database that holds the agents of a second ingestion run too
OtherRunId == IngestionRunId + 1

InitRuns ==
    Configured(RecMaxInputLen, MaxMaxDepth, {EmptyDict}, 0..MaxStopLimit, Texts,
               {IngestionRunId, OtherRunId})

\* ------------------------------------------------- RecursionPipeline._run
Enter_tags_in_place ==
    /\ pc = "Enter"
    /\ IF DepthExceeded(depth)
       THEN /\ pc' = "MaxDepthExceeded"
            /\ hist' = [hist EXCEPT ![depth].entered = @ + 1]
            /\ frames' = <<>>
            /\ caller_metadata' = caller_metadata
       ELSE LET input_list == IF depth = 0 THEN input ELSE frames[depth].sub_input_list
                md == IF depth = 0 THEN caller_metadata ELSE frames[depth].metadata
            IN  /\ pc' = "RunInner"
                /\ hist' = [hist EXCEPT ![depth].entered = @ + 1,
                                        ![depth].materialized = @ + 1,
                                        ![depth].input_list = input_list]
                /\ frames' = Append(frames, [input_list |-> input_list, results |-> <<>>,
                                             metadata |-> RecursionMetadata(md, depth),
                                             sub_input_list |-> <<>>])
                /\ caller_metadata' = RecursionMetadata(md, depth)
    /\ UNCHANGED <<input, filter_agents, batch_size, max_batches, concurrency, max_depth,
                   stop_limit, agent_answers, agent_run, ignore_cached, runNo, depth, batching,
                   store, out, events, runLog, fp, compose, ingest>>

\* the head of _run(input, metadata, depth): the depth guard, then the input is
\* materialized and the metadata tagged with the depth
Enter ==
    /\ pc = "Enter"
    /\ IF DepthExceeded(depth)
       THEN /\ pc' = "MaxDepthExceeded"
            /\ hist' = [hist EXCEPT ![depth].entered = @ + 1]
            /\ frames' = <<>>
       ELSE LET input_list == IF depth = 0 THEN input ELSE frames[depth].sub_input_list
                md == IF depth = 0 THEN caller_metadata ELSE frames[depth].metadata
            IN  /\ pc' = "RunInner"
                /\ hist' = [hist EXCEPT ![depth].entered = @ + 1,
                                        ![depth].materialized = @ + 1,
                                        ![depth].input_list = input_list]
                /\ frames' = Append(frames, [input_list |-> input_list, results |-> <<>>,
                                             metadata |-> RecursionMetadata(md, depth),
                                             sub_input_list |-> <<>>])
    /\ UNCHANGED <<config, ignore_cached, runNo, depth, batching, store, out, events, runLog, fp, compose,
                   ingest>>

StopOrRecurse_same_depth ==
    /\ pc = "Drained"
    /\ LET results == frames[depth + 1].results
       IN  IF stopper(results)
           THEN /\ pc' = "Stopped"
                /\ hist' = [hist EXCEPT ![depth].stopper = @ + 1, ![depth].decision = "stop"]
                /\ frames' = <<>>
                /\ depth' = depth
           ELSE /\ pc' = "Enter"
                /\ hist' = [hist EXCEPT ![depth].stopper = @ + 1, ![depth].mapper = @ + 1,
                                        ![depth].decision = "go"]
                /\ frames' = [frames EXCEPT ![depth + 1].sub_input_list = mapper(results)]
                /\ depth' = depth
    /\ UNCHANGED <<config, ignore_cached, runNo, batching, store, out, events, runLog, fp, compose,
                   ingest>>

StopOrRecurse_accumulated ==
    /\ pc = "Drained"
    /\ LET results == Concat([k \in DOMAIN frames |-> frames[k].results])
       IN  IF stopper(results)
           THEN /\ pc' = "Stopped"
                /\ hist' = [hist EXCEPT ![depth].stopper = @ + 1, ![depth].decision = "stop"]
                /\ frames' = <<>>
                /\ depth' = depth
           ELSE /\ pc' = "Enter"
                /\ hist' = [hist EXCEPT ![depth].stopper = @ + 1, ![depth].mapper = @ + 1,
                                        ![depth].decision = "go"]
                /\ frames' = [frames EXCEPT ![depth + 1].sub_input_list = mapper(results)]
                /\ depth' = depth + 1
    /\ UNCHANGED <<config, ignore_cached, runNo, batching, store, out, events, runLog, fp, compose,
                   ingest>>

\* after the inner stage is exhausted: the stopper, then the mapper and the
\* recursive call
StopOrRecurse ==
    /\ pc = "Drained"
    /\ LET results == frames[depth + 1].results
       IN  IF stopper(results)
           THEN /\ pc' = "Stopped"
                /\ hist' = [hist EXCEPT ![depth].stopper = @ + 1, ![depth].decision = "stop"]
                /\ frames' = <<>>
                /\ depth' = depth
           ELSE /\ pc' = "Enter"
                /\ hist' = [hist EXCEPT ![depth].stopper = @ + 1, ![depth].mapper = @ + 1,
                                        ![depth].decision = "go"]
                /\ frames' = [frames EXCEPT ![depth + 1].sub_input_list = mapper(results)]
                /\ depth' = depth + 1
    /\ UNCHANGED <<config, ignore_cached, runNo, batching, store, out, events, runLog, fp, compose,
                   ingest>>

\* ------------------------------------- CookieFunBatchedAnalysisPipeline.run
\* the head of run(input, metadata), entered at the first pull of _run
RunInner ==
    /\ pc = "RunInner"
    /\ pc' = "Forming"
    /\ pos' = 0
    /\ current_batch' = <<>>
    /\ batches' = <<>>
    /\ metadata' = RunMetadata(frames[depth + 1].metadata)
    /\ index' = 0
    /\ tasks' = <<>> /\ aborted' = FALSE /\ completed' = <<>> /\ yielded' = {}
    /\ hist' = [hist EXCEPT ![depth].inner = @ + 1]
    /\ UNCHANGED <<config, ignore_cached, runNo, depth, frames, store, out, events, runLog, fp, compose,
                   ingest>>

FormNext_keeps_running_batch ==
    /\ pc = "Forming"
    /\ LET input_list == frames[depth + 1].input_list
       IN  IF pos < Len(input_list)
           THEN LET record == input_list[pos + 1]
                    cb1 == Append(current_batch, record)
                    bs1 == IF BatchFull(cb1) THEN Append(batches, cb1) ELSE batches
                IN  /\ pos' = pos + 1
                    /\ IF ~Accepts(record)
                       THEN UNCHANGED <<current_batch, batches, pc, ingest>>
                       ELSE IF CapReached(bs1)
                       THEN /\ current_batch' = cb1
                            /\ batches' = SealRest(bs1, cb1)
                            /\ pc' = "Waves"
                       ELSE /\ current_batch' = cb1
                            /\ batches' = bs1
                            /\ pc' = pc
           ELSE /\ pos' = pos
                /\ current_batch' = current_batch
                /\ batches' = SealRest(batches, current_batch)
                /\ pc' = "Waves"
    /\ UNCHANGED <<config, ignore_cached, runNo, depth, frames, metadata, index, tasks, aborted,
                   completed, yielded, store, out, hist, events, runLog, fp, compose, ingest>>

\* one turn of `async for record in input`, and what follows the loop when it ends
FormNext ==
    /\ pc = "Forming"
    /\ LET input_list == frames[depth + 1].input_list
       IN  IF pos < Len(input_list)
           THEN LET record == input_list[pos + 1]
                    cb1 == Append(current_batch, record)
                    bs1 == IF BatchFull(cb1) THEN Append(batches, cb1) ELSE batches
                    cb2 == IF BatchFull(cb1) THEN <<>> ELSE cb1
                IN  /\ pos' = pos + 1
                    /\ IF ~Accepts(record)
                       THEN UNCHANGED <<current_batch, batches, pc, ingest>>
                       ELSE IF CapReached(bs1)
                       THEN /\ current_batch' = cb2
                            /\ batches' = SealRest(bs1, cb2)
                            /\ pc' = "Waves"
                       ELSE /\ current_batch' = cb2
                            /\ batches' = bs1
                            /\ pc' = pc
           ELSE /\ pos' = pos
                /\ current_batch' = current_batch
                /\ batches' = SealRest(batches, current_batch)
                /\ pc' = "Waves"
    /\ UNCHANGED <<config, ignore_cached, runNo, depth, frames, metadata, index, tasks, aborted,
                   completed, yielded, store, out, hist, events, runLog, fp, compose, ingest>>

\* _run_batches: the next wave's tasks are created in the TaskGroup
SpawnWave ==
    /\ pc = "Waves"
    /\ index < Len(batches)
    /\ LET chunk == batch_chunk(batches, index)
       IN  tasks' = [i \in DOMAIN chunk |-> NewTask(chunk[i])]
    /\ aborted' = FALSE
    /\ completed' = <<>>
    /\ yielded' = {}
    /\ pc' = "Running"
    /\ UNCHANGED <<config, ignore_cached, runNo, depth, frames, pos, current_batch, batches,
                   metadata, index, store, out, hist, events, runLog, fp, compose, ingest>>

InnerExhausted_early ==
    /\ pc = "Waves"
    /\ pc' = "Drained"
    /\ UNCHANGED <<config, ignore_cached, runNo, depth, frames, batching, store, out, hist,
                   events, runLog, fp, compose, ingest>>

\* _run_batches: range(0, len(batches), concurrency) is exhausted
InnerExhausted ==
    /\ pc = "Waves"
    /\ index >= Len(batches)
    /\ pc' = "Drained"
    /\ UNCHANGED <<config, ignore_cached, runNo, depth, frames, batching, store, out, hist,
                   events, runLog, fp, compose, ingest>>

\* --------------------------------------------------------------- _run_agent
SetTask(i, t) == tasks' = [tasks EXCEPT ![i] = t]

\* a task's first step: the empty check, the cache lookup, and on a miss the
\* call of the agent, whose answer the task then awaits
TaskBegin(i) ==
    /\ pc = "Running"
    /\ tasks[i].pc = "created"
    /\ LET batch == tasks[i].batch
       IN  IF batch = <<>>
           THEN /\ SetTask(i, [tasks[i] EXCEPT !.pc = "failed"])
                /\ UNCHANGED <<completed, events, ingest>>
           ELSE LET run_id == ItemRunId(batch[1])
                    input_agent_ids ==
                        serialize_agent_ids([k \in DOMAIN batch |-> ItemId(batch[k])])
                IN  \E record \in query(store, AnalysisType, run_id, input_agent_ids) :
                        IF CacheHit(record)
                        THEN /\ SetTask(i, [tasks[i] EXCEPT !.pc = "done",
                                                            !.key = input_agent_ids,
                                                            !.result = record])
                             /\ completed' = Append(completed, i)
                             /\ events' = events \cup
                                    {Event("begin", i, input_agent_ids, 0),
                                     Event("hit", i, input_agent_ids, record.id)}
                        ELSE /\ SetTask(i, [tasks[i] EXCEPT !.pc = "agent",
                                                            !.key = input_agent_ids])
                             /\ completed' = completed
                             /\ events' = events \cup
                                    {Event("begin", i, input_agent_ids, 0),
                                     Event("agent", i, input_agent_ids, 0)}
    /\ UNCHANGED <<config, ignore_cached, runNo, pc, depth, frames, pos, current_batch, batches,
                   metadata, index, aborted, yielded, store, out, hist, runLog, fp, compose,
                   ingest>>

\* the agent answers; identify_top_agents is called with the batch and the answer
AgentReturn(i) ==
    /\ pc = "Running"
    /\ tasks[i].pc = "agent"
    /\ \E analysis \in agent_answers :
           SetTask(i, [tasks[i] EXCEPT !.pc = "top", !.analysis = analysis])
    /\ events' = events \cup {Event("top", i, tasks[i].key, 0)}
    /\ UNCHANGED <<config, ignore_cached, runNo, pc, depth, frames, pos, current_batch, batches,
                   metadata, index, aborted, completed, yielded, store, out, hist, runLog, fp, compose,
                   ingest>>

TopReturn_upsert(i) ==
    /\ pc = "Running"
    /\ tasks[i].pc = "top"
    /\ \E top_agent_ids \in TopChoices(tasks[i].batch),
          created \in Now(store, AnalysisType, ItemRunId(tasks[i].batch[1]), tasks[i].key) :
           LET same == {j \in DOMAIN store : store[j].input_agent_ids = tasks[i].key}
               id == IF same = {} THEN Len(store) + 1 ELSE CHOOSE j \in same : TRUE
               record == BatchAnalysisRecord(id, ItemRunId(tasks[i].batch[1]),
                                             tasks[i].key, AnalysisType, tasks[i].analysis,
                                             top_agent_ids, metadata, created)
           IN  /\ store' = IF same = {} THEN Append(store, record)
                           ELSE [store EXCEPT ![id] = record]
               /\ SetTask(i, [tasks[i] EXCEPT !.pc = "done", !.result = record])
               /\ events' = events \cup {Event("insert", i, tasks[i].key, record.id)}
    /\ completed' = Append(completed, i)
    /\ UNCHANGED <<config, ignore_cached, runNo, pc, depth, frames, pos, current_batch, batches,
                   metadata, index, aborted, yielded, out, hist, runLog, fp, compose, ingest>>

TopReturn_other_text(i) ==
    /\ pc = "Running"
    /\ tasks[i].pc = "top"
    /\ \E top_agent_ids \in TopChoices(tasks[i].batch), analysis \in agent_answers,
          created \in Now(store, AnalysisType, ItemRunId(tasks[i].batch[1]), tasks[i].key) :
           LET record == BatchAnalysisRecord(Len(store) + 1, ItemRunId(tasks[i].batch[1]),
                                             tasks[i].key, AnalysisType, analysis,
                                             top_agent_ids, metadata, created)
           IN  /\ store' = Append(store, record)
               /\ SetTask(i, [tasks[i] EXCEPT !.pc = "done", !.result = record])
               /\ events' = events \cup {Event("insert", i, tasks[i].key, record.id)}
    /\ completed' = Append(completed, i)
    /\ UNCHANGED <<config, ignore_cached, runNo, pc, depth, frames, pos, current_batch, batches,
                   metadata, index, aborted, yielded, out, hist, runLog, fp, compose, ingest>>

\* identify_top_agents answers; the record is built, added and committed
TopReturn(i) ==
    /\ pc = "Running"
    /\ tasks[i].pc = "top"
    /\ \E top_agent_ids \in TopChoices(tasks[i].batch),
          created \in Now(store, AnalysisType, ItemRunId(tasks[i].batch[1]), tasks[i].key) :
           LET record == BatchAnalysisRecord(Len(store) + 1, ItemRunId(tasks[i].batch[1]),
                                             tasks[i].key, AnalysisType, tasks[i].analysis,
                                             top_agent_ids, metadata, created)
           IN  /\ store' = Append(store, record)
               /\ SetTask(i, [tasks[i] EXCEPT !.pc = "done", !.result = record])
               /\ events' = events \cup {Event("insert", i, tasks[i].key, record.id)}
    /\ completed' = Append(completed, i)
    /\ UNCHANGED <<config, ignore_cached, runNo, pc, depth, frames, pos, current_batch, batches,
                   metadata, index, aborted, yielded, out, hist, runLog, fp, compose, ingest>>

CollaboratorFails_retry(i) ==
    /\ pc = "Running"
    /\ tasks[i].pc \in {"agent", "top"}
    /\ SetTask(i, [tasks[i] EXCEPT !.pc = "created"])
    /\ UNCHANGED <<config, ignore_cached, runNo, pc, depth, frames, pos, current_batch, batches,
                   metadata, index, aborted, completed, yielded, store, out, hist, events,
                   runLog, fp, compose, ingest>>

\* the agent or identify_top_agents raises in the task
CollaboratorFails(i) ==
    /\ pc = "Running"
    /\ tasks[i].pc \in {"agent", "top"}
    /\ SetTask(i, [tasks[i] EXCEPT !.pc = "failed"])
    /\ UNCHANGED <<config, ignore_cached, runNo, pc, depth, frames, pos, current_batch, batches,
                   metadata, index, aborted, completed, yielded, store, out, hist, events,
                   runLog, fp, compose, ingest>>

\* TaskGroup: the done-callback of a failed task cancels the tasks not yet done
Abort ==
    /\ pc = "Running"
    /\ ~aborted
    /\ \E i \in DOMAIN tasks : tasks[i].pc = "failed"
    /\ aborted' = TRUE
    /\ tasks' = [i \in DOMAIN tasks |->
                   IF Resolved(tasks[i]) THEN tasks[i] ELSE [tasks[i] EXCEPT !.pc = "cancelled"]]
    /\ UNCHANGED <<config, ignore_cached, runNo, pc, depth, frames, pos, current_batch, batches,
                   metadata, index, completed, yielded, store, out, hist, events, runLog, fp, compose,
                   ingest>>

\* TaskGroup.__aexit__ with every task done: as_completed follows
JoinWave ==
    /\ pc = "Running"
    /\ AllDone
    /\ pc' = "Yielding"
    /\ UNCHANGED <<config, ignore_cached, runNo, depth, frames, batching, store, out, hist,
                   events, runLog, fp, compose, ingest>>

WaveFails_rollback ==
    /\ pc = "Running"
    /\ aborted
    /\ \A i \in DOMAIN tasks : Resolved(tasks[i])
    /\ pc' = "Failed"
    /\ frames' = <<>>
    /\ store' = SelectSeq(store, LAMBDA r : \A e \in events :
                                       ~(e.op = "insert" /\ e.run = runNo /\ e.id = r.id))
    /\ UNCHANGED <<config, ignore_cached, runNo, depth, batching, out, hist, events,
                   runLog, fp, compose, ingest>>

WaveFails_yields_done ==
    /\ pc = "Running"
    /\ aborted
    /\ \A i \in DOMAIN tasks : Resolved(tasks[i])
    /\ pc' = "Failed"
    /\ frames' = <<>>
    /\ LET done == SelectSeq([i \in DOMAIN tasks |-> i], LAMBDA i : tasks[i].pc = "done")
       IN  out' = out \o [k \in DOMAIN done |->
                            [depth |-> depth,
                             value |-> YieldedAt(tasks[done[k]].result, depth, 0)]]
    /\ UNCHANGED <<config, ignore_cached, runNo, depth, batching, store, hist, events,
                   runLog, fp, compose, ingest>>

\* TaskGroup.__aexit__ after a failure: the exception group leaves run, _run and
\* the consumer's loop
WaveFails ==
    /\ pc = "Running"
    /\ aborted
    /\ \A i \in DOMAIN tasks : Resolved(tasks[i])
    /\ pc' = "Failed"
    /\ frames' = <<>>
    /\ UNCHANGED <<config, ignore_cached, runNo, depth, batching, store, out, hist, events,
                   runLog, fp, compose, ingest>>

\* `yield await task` for the next task as_completed hands out, passed up through
\* every _run frame to the consumer; after the last one the loop of _run_batches
\* goes on
YieldNext(i) ==
    /\ pc = "Yielding"
    /\ i \notin yielded
    /\ tasks[i].pc = "done"
    /\ LET item == tasks[i].result
       IN  /\ frames' = [frames EXCEPT ![depth + 1].results = Append(@, item)]
           /\ out' = Append(out, [depth |-> depth, value |-> YieldedAt(item, depth, 0)])
    /\ yielded' = yielded \cup {i}
    /\ IF yielded' = DOMAIN tasks
       THEN pc' = "Waves" /\ index' = index + concurrency
       ELSE pc' = pc /\ index' = index
    /\ UNCHANGED <<config, ignore_cached, runNo, depth, pos, current_batch, batches, metadata,
                   tasks, aborted, completed, store, hist, events, runLog, fp, compose, ingest>>

\* ------------------------------------------------------------ the command
\* `analyze` is invoked again over the same ingestion run
Reinvoke ==
    /\ pc \in Terminal
    /\ runNo < MaxRuns
    /\ runLog' = Append(runLog, [ignore_cached |-> ignore_cached, outcome |-> pc, out |-> out])
    /\ runNo' = runNo + 1
    /\ ignore_cached' \in BOOLEAN
    /\ pc' = "Enter"
    /\ depth' = 0
    /\ frames' = <<>>
    /\ pos' = 0 /\ current_batch' = <<>> /\ batches' = <<>> /\ metadata' = EmptyDict
    /\ index' = 0 /\ tasks' = <<>> /\ aborted' = FALSE /\ completed' = <<>> /\ yielded' = {}
    /\ out' = <<>>
    /\ hist' = [d \in 0..MaxMaxDepth |-> NoHist]
    /\ UNCHANGED <<config, store, events, fp, compose, ingest>>

Next ==
    \/ Enter
    \/ StopOrRecurse
    \/ RunInner
    \/ FormNext
    \/ SpawnWave
    \/ InnerExhausted
    \/ \E i \in DOMAIN tasks : TaskBegin(i)
    \/ \E i \in DOMAIN tasks : AgentReturn(i)
    \/ \E i \in DOMAIN tasks : TopReturn(i)
    \/ \E i \in DOMAIN tasks : CollaboratorFails(i)
    \/ Abort
    \/ JoinWave
    \/ WaveFails
    \/ \E i \in DOMAIN tasks : YieldNext(i)

NextRerun == Next \/ Reinvoke

\* the steps of a run in which every collaborator call returns
NextLive ==
    \/ Enter
    \/ StopOrRecurse
    \/ RunInner
    \/ FormNext
    \/ SpawnWave
    \/ InnerExhausted
    \/ \E i \in DOMAIN tasks : TaskBegin(i)
    \/ \E i \in DOMAIN tasks : AgentReturn(i)
    \/ \E i \in DOMAIN tasks : TopReturn(i)
    \/ JoinWave
    \/ \E i \in DOMAIN tasks : YieldNext(i)

\* ------------------------------------------- serialize_agent_ids on its own
FpIds == {1, 2, 3, 12}

InitFp ==
    /\ fpA \in SeqsUpTo(FpIds, MaxFpLen)
    /\ fpB \in SeqsUpTo(FpIds, MaxFpLen)
    /\ fpKeyA = <<>>
    /\ fpKeyB = <<>>
    /\ input = <<>> /\ filter_agents = Ids /\ batch_size = 1 /\ max_batches = 0
    /\ concurrency = 1 /\ ignore_cached = FALSE /\ max_depth = 0 /\ stop_limit = 0
    /\ caller_metadata = EmptyDict /\ agent_answers = Texts
    /\ agent_run = [i \in Ids |-> IngestionRunId]
    /\ IdleCompose
    /\ IdleIngest
    /\ runNo = 1 /\ pc = "Fingerprint" /\ depth = 0 /\ frames = <<>>
    /\ IdleBatching
    /\ store = <<>> /\ out = <<>> /\ hist = [d \in 0..MaxMaxDepth |-> NoHist]
    /\ events = {} /\ runLog = <<>>

Serialize ==
    /\ pc = "Fingerprint"
    /\ fpKeyA' = serialize_agent_ids(fpA)
    /\ fpKeyB' = serialize_agent_ids(fpB)
    /\ pc' = "Fingerprinted"
    /\ UNCHANGED <<config, ignore_cached, runNo, depth, frames, batching, store, out, hist,
                   events, runLog, fpA, fpB, compose, ingest>>

NextFp == Serialize

SpecFp == InitFp /\ [][NextFp]_vars

\* ---------------------------------------------- Pipeline.__ror__, composition
\* Stages to compose.  A stage is a generator over its input stream: "source"
\* yields the agents of its ingestion run and never reads its input; "tag" yields
\* every item with a value of the metadata appended; "dup" yields every item
\* twice; "pairs" joins every two items and yields a last single one at the end.
\* Items are tuples of numbers.
StageKinds == {"source", "tag", "dup", "pairs"}

ComposeItems == {<<1>>, <<2>>}

SourceAgents == << <<3>>, <<4>> >>

ComposeMetadata == {[tag |-> 7], [tag |-> 8]}

\* one turn of a stage's `async for item in input` loop: its new local state and
\* what it yields in that turn
StageStep(kind, buf, item, md) ==
    CASE kind = "tag"   -> [buf |-> <<>>, outs |-> <<Append(item, md.tag)>>]
      [] kind = "dup"   -> [buf |-> <<>>, outs |-> <<item, item>>]
      [] kind = "pairs" -> IF buf = <<>> THEN [buf |-> <<item>>, outs |-> <<>>]
                           ELSE [buf |-> <<>>, outs |-> <<buf[1] \o item>>]
      [] OTHER          -> [buf |-> buf, outs |-> <<>>]

\* what a stage yields after its loop has ended
StageFinish(kind, buf) == IF kind = "pairs" THEN buf ELSE <<>>

\* calling stage.run(input, metadata) makes a generator; nothing of it has run
NewGenerator(kind, md) ==
    [kind |-> kind, metadata |-> md, buf |-> <<>>, pulled |-> 0,
     pending |-> IF kind = "source" THEN SourceAgents ELSE <<>>,
     exhausted |-> kind = "source"]

\* the whole output of stage.run over a given input sequence
RECURSIVE StageFeed(_, _, _, _)
StageFeed(kind, buf, seq, md) ==
    IF seq = <<>> THEN StageFinish(kind, buf)
    ELSE LET turn == StageStep(kind, buf, Head(seq), md)
         IN  turn.outs \o StageFeed(kind, turn.buf, Tail(seq), md)

StageRun(kind, seq, md) ==
    IF kind = "source" THEN SourceAgents ELSE StageFeed(kind, <<>>, seq, md)

ror_swapped(self, first_pipeline) ==
    [type |-> "ComposedPipeline", first_pipeline |-> self, second_pipeline |-> first_pipeline]

\* second.__ror__(first)
ror(self, first_pipeline) ==
    [type |-> "ComposedPipeline", first_pipeline |-> first_pipeline, second_pipeline |-> self]

\* `a | b`: Pipeline defines no __or__, so Python evaluates b.__ror__(a)
Pipe(a, b) == ror(b, a)

EngineUnused ==
    /\ input = <<>> /\ filter_agents = Ids /\ batch_size = 1 /\ max_batches = 0
    /\ concurrency = 1 /\ ignore_cached = FALSE /\ max_depth = 0 /\ stop_limit = 0
    /\ caller_metadata = EmptyDict /\ agent_answers = Texts
    /\ agent_run = [i \in Ids |-> IngestionRunId]
    /\ runNo = 1 /\ pc = "Unused" /\ depth = 0 /\ frames = <<>>
    /\ IdleBatching
    /\ store = <<>> /\ out = <<>> /\ hist = [d \in 0..MaxMaxDepth |-> NoHist]
    /\ events = {} /\ runLog = <<>>
    /\ IdleFp

InitCompose ==
    /\ stageA \in StageKinds
    /\ stageB \in StageKinds
    /\ composed = Pipe(stageA, stageB)
    /\ cInput \in SeqsUpTo(ComposeItems, MaxComposeLen)
    /\ cMetadata \in ComposeMetadata
    /\ cpc = "Constructed"
    /\ stream = None /\ second = None /\ cOut = <<>>
    /\ EngineUnused
    /\ IdleIngest

SecondWantsItem == second.pending = <<>> /\ ~second.exhausted

\* ComposedPipeline.run is entered at the consumer's first pull: both generators
\* are made, with the same metadata
ComposedRun ==
    /\ cpc = "Constructed"
    /\ stream' = NewGenerator(composed.first_pipeline, cMetadata)
    /\ second' = NewGenerator(composed.second_pipeline, cMetadata)
    /\ cpc' = "Running"
    /\ UNCHANGED <<config, ignore_cached, runNo, pc, depth, frames, batching, store, out, hist,
                   events, runLog, fp, stageA, stageB, composed, cInput, cMetadata, cOut, ingest>>

\* the first stage, asked for an item and with none to yield, takes the next
\* item of the input, or finds the input ended
FirstPull ==
    /\ cpc = "Running"
    /\ SecondWantsItem
    /\ stream.pending = <<>> /\ ~stream.exhausted
    /\ IF stream.pulled < Len(cInput)
       THEN LET turn == StageStep(stream.kind, stream.buf, cInput[stream.pulled + 1],
                                  stream.metadata)
            IN  stream' = [stream EXCEPT !.pulled = @ + 1, !.buf = turn.buf,
                                         !.pending = turn.outs]
       ELSE stream' = [stream EXCEPT !.exhausted = TRUE,
                                     !.pending = StageFinish(stream.kind, stream.buf)]
    /\ UNCHANGED <<config, ignore_cached, runNo, pc, depth, frames, batching, store, out, hist,
                   events, runLog, fp, stageA, stageB, composed, cInput, cMetadata, cpc,
                   second, cOut, ingest>>

\* the first stage yields an item; the second stage takes it as its next input
FirstYield ==
    /\ cpc = "Running"
    /\ SecondWantsItem
    /\ stream.pending # <<>>
    /\ LET turn == StageStep(second.kind, second.buf, Head(stream.pending), second.metadata)
       IN  second' = [second EXCEPT !.pulled = @ + 1, !.buf = turn.buf, !.pending = turn.outs]
    /\ stream' = [stream EXCEPT !.pending = Tail(@)]
    /\ UNCHANGED <<config, ignore_cached, runNo, pc, depth, frames, batching, store, out, hist,
                   events, runLog, fp, stageA, stageB, composed, cInput, cMetadata, cpc, cOut,
                   ingest>>

\* the first stage has ended; the loop of the second stage ends
FirstEnds ==
    /\ cpc = "Running"
    /\ SecondWantsItem
    /\ stream.pending = <<>> /\ stream.exhausted
    /\ second' = [second EXCEPT !.exhausted = TRUE,
                                !.pending = StageFinish(second.kind, second.buf)]
    /\ UNCHANGED <<config, ignore_cached, runNo, pc, depth, frames, batching, store, out, hist,
                   events, runLog, fp, stageA, stageB, composed, cInput, cMetadata, cpc,
                   stream, cOut, ingest>>

\* `yield item` of ComposedPipeline.run for the next item of the second stage
ComposedYield ==
    /\ cpc = "Running"
    /\ second.pending # <<>>
    /\ cOut' = Append(cOut, Head(second.pending))
    /\ second' = [second EXCEPT !.pending = Tail(@)]
    /\ UNCHANGED <<config, ignore_cached, runNo, pc, depth, frames, batching, store, out, hist,
                   events, runLog, fp, stageA, stageB, composed, cInput, cMetadata, cpc, stream,
                   ingest>>

\* the second stage has ended, and with it the composed run
ComposedEnds ==
    /\ cpc = "Running"
    /\ second.pending = <<>> /\ second.exhausted
    /\ cpc' = "Ended"
    /\ UNCHANGED <<config, ignore_cached, runNo, pc, depth, frames, batching, store, out, hist,
                   events, runLog, fp, stageA, stageB, composed, cInput, cMetadata, stream,
                   second, cOut, ingest>>

NextCompose ==
    \/ ComposedRun
    \/ FirstPull
    \/ FirstYield
    \/ FirstEnds
    \/ ComposedYield
    \/ ComposedEnds

\* one run of a composed pipeline
SpecCompose == InitCompose /\ [][NextCompose]_vars

\* one invocation of `analyze`, longer inputs and max_depth up to ShallowMaxDepth
\* ------------------------------------------------- CookieFunIngestion.ingest
\* an agent as the API returns it: the k-th of the page it came with
Agent(p, k) == [page |-> p, k |-> k]

\* what a call of fetch_page for a page may return: any number of agents; the
\* API is not held to the limit it was asked for
Responses(p) == {[k \in 1..n |-> Agent(p, k)] : n \in 0..MaxPageSize}

ShortPage_never(fetched) == FALSE

\* len(agents) < page_size
ShortPage(fetched) == Len(fetched) < page_size

InitIngest ==
    /\ max_pages \in 0..MaxPages
    /\ page_size \in 0..MaxPageSize
    /\ ipc = "Called"
    /\ page = 0
    /\ fetch_log = <<>>
    /\ responses = <<>>
    /\ agent_rows = <<>>
    /\ EngineUnused
    /\ IdleCompose

EngineUntouched ==
    UNCHANGED <<config, ignore_cached, runNo, pc, depth, frames, batching, store, out, hist,
                events, runLog, fp, compose>>

\* the ingestion run is added and committed; the loop starts at page 1
CreateRun ==
    /\ ipc = "Called"
    /\ ipc' = "Loop"
    /\ page' = 1
    /\ UNCHANGED <<max_pages, page_size, fetch_log, responses, agent_rows>>
    /\ EngineUntouched

\* `for page in range(1, max_pages)` has a next page: fetch_page is awaited
FetchPage ==
    /\ ipc = "Loop"
    /\ page < max_pages
    /\ \E fetched \in Responses(page) : responses' = Append(responses, fetched)
    /\ fetch_log' = Append(fetch_log, page)
    /\ ipc' = "Fetched"
    /\ UNCHANGED <<max_pages, page_size, page, agent_rows>>
    /\ EngineUntouched

\* fetch_page raises: a status other than 200 or an invalid response
FetchFails ==
    /\ ipc = "Loop"
    /\ page < max_pages
    /\ fetch_log' = Append(fetch_log, page)
    /\ ipc' = "Failed"
    /\ UNCHANGED <<max_pages, page_size, page, responses, agent_rows>>
    /\ EngineUntouched

\* the agents of the page are added and committed
PersistPage ==
    /\ ipc = "Fetched"
    /\ agent_rows' = agent_rows \o responses[Len(responses)]
    /\ ipc' = "Persisted"
    /\ UNCHANGED <<max_pages, page_size, page, fetch_log, responses>>
    /\ EngineUntouched

\* the test for a short page, then the sleep and the next turn of the loop
BreakOrSleep ==
    /\ ipc = "Persisted"
    /\ IF ShortPage(responses[Len(responses)])
       THEN ipc' = "Returned" /\ page' = page
       ELSE ipc' = "Loop" /\ page' = page + 1
    /\ UNCHANGED <<max_pages, page_size, fetch_log, responses, agent_rows>>
    /\ EngineUntouched

\* range(1, max_pages) is exhausted: the ingestion run is loaded and returned
RangeExhausted ==
    /\ ipc = "Loop"
    /\ page >= max_pages
    /\ ipc' = "Returned"
    /\ UNCHANGED <<max_pages, page_size, page, fetch_log, responses, agent_rows>>
    /\ EngineUntouched

NextIngest ==
    \/ CreateRun
    \/ FetchPage
    \/ FetchFails
    \/ PersistPage
    \/ BreakOrSleep
    \/ RangeExhausted

\* every await of ingest returns or raises, and the event loop resumes it
SpecIngest == InitIngest /\ [][NextIngest]_vars /\ WF_vars(NextIngest)

Spec == Init /\ [][Next]_vars

\* one invocation of `analyze`, shorter inputs and max_depth up to MaxMaxDepth
SpecRec == InitRec /\ [][Next]_vars

\* one invocation of the pipeline with metadata given by the caller
SpecMeta == InitMeta /\ [][Next]_vars

\* up to MaxRuns invocations, one after the other, over the same table
SpecRerun == InitRerun /\ [][NextRerun]_vars

SpecTexts == InitTexts /\ [][Next]_vars

SpecRuns == InitRuns /\ [][Next]_vars

\* a run whose collaborators always return and whose consumer keeps pulling: the
\* event loop runs whatever is ready, so some step is taken while one is possible
SpecLive == InitLive /\ [][NextLive]_vars /\ WF_vars(NextLive)

\* ================================================================== claims
RECURSIVE Innermost(_)
Innermost(v) == IF v.type = "tuple" THEN Innermost(v.first) ELSE v

OutAtDepth(o, d) == {k \in DOMAIN o : o[k].depth = d}

BatchKey(batch) == serialize_agent_ids([k \in DOMAIN batch |-> ItemId(batch[k])])

Count(x, s) == Cardinality({k \in DOMAIN s : s[k] = x})

\* C1: one run of the batching stage never seals more than max_batches batches,
\* the partial batch sealed after the loop included.
C1_SealedWithinCap == Len(batches) <= max_batches

\* C2: at no instant are more than `concurrency` tasks of _run_agent created and
\* not yet finished.
C2_InFlightWithinConcurrency == Cardinality(InFlight) <= concurrency

C2_Witness ==
    /\ concurrency = 2
    /\ Len(batches) = 3
    /\ Cardinality(InFlight) = 2
    /\ \E i \in DOMAIN tasks : tasks[i].pc = "top"

\* C3: the tasks of a wave are created only when every task of the wave before
\* has resolved, and the waves follow the list of batches: the tasks created at
\* loop index n are the batches from position n on, and the result of every
\* batch before position n has been yielded.
C3_WavesInOrder ==
    [][\A i \in DOMAIN tasks' :
          (tasks'[i].pc = "created" /\ (i \notin DOMAIN tasks \/ tasks[i] # tasks'[i]))
          => /\ \A j \in DOMAIN tasks : Resolved(tasks[j])
             /\ index' = index
             /\ tasks'[i].batch = batches[index + i]
             /\ Len(frames[depth + 1].results) = index
             /\ Cardinality(OutAtDepth(out, depth)) = index]_vars

C3_Witness ==
    /\ pc = "Running"
    /\ index > 0
    /\ concurrency = 2
    /\ \E i \in DOMAIN tasks : tasks[i].pc = "created"

\* C4: once a task of a wave has failed, no result of that wave is yielded, the
\* run can only end as failed, and no further task is created.
C4_FailFast ==
    [][(\E i \in DOMAIN tasks : tasks[i].pc = "failed")
          => /\ pc \in {"Running", "Failed"}
             /\ pc' \in {"Running", "Failed"}
             /\ yielded = {} /\ yielded' = {}
             /\ out' = out
             /\ Cardinality(OutAtDepth(out, depth)) = index
             /\ index' = index
             /\ DOMAIN tasks' = DOMAIN tasks
             /\ \A i \in DOMAIN tasks : tasks'[i].pc = "created" => tasks[i].pc = "created"]_vars

C4_Witness ==
    /\ pc = "Failed"
    /\ Len(tasks) = 2
    /\ \E i, j \in DOMAIN tasks : tasks[i].pc = "failed" /\ tasks[j].pc = "done"
    /\ Len(batches) = 3
    /\ index = 0

\* C5: when a task starts while the table holds a row for its (run id, analysis
\* type, fingerprint) and ignore_cached is false, the task returns a row of the
\* table for that key as it is stored, calls neither collaborator and inserts
\* nothing.
C5_CacheHitReturnsStored ==
    [][\A i \in (DOMAIN tasks) \cap (DOMAIN tasks') :
          LET batch == tasks[i].batch
          IN  ( /\ pc = "Running" /\ pc' = "Running"
                /\ tasks[i].pc = "created"
                /\ tasks'[i].pc \notin {"created", "cancelled"}
                /\ batch # <<>>
                /\ ~ignore_cached
                /\ \E k \in DOMAIN store :
                       /\ store[k].ingestion_run_id = ItemRunId(batch[1])
                       /\ store[k].analysis_type = AnalysisType
                       /\ store[k].input_agent_ids = BatchKey(batch) )
              => /\ tasks'[i].pc = "done"
                 /\ \E k \in DOMAIN store :
                        /\ tasks'[i].result = store[k]
                        /\ store[k].ingestion_run_id = ItemRunId(batch[1])
                        /\ store[k].analysis_type = AnalysisType
                        /\ store[k].input_agent_ids = BatchKey(batch)
                 /\ store' = store
                 /\ \A e \in events' \ events : e.op \in {"begin", "hit"}]_vars

C5_Witness ==
    /\ pc = "Running"
    /\ ~ignore_cached
    /\ \E i \in DOMAIN tasks, e \in events :
           /\ tasks[i].pc = "done"
           /\ e.op = "hit" /\ e.run = runNo /\ e.depth = depth /\ e.index = index /\ e.slot = i
           /\ tasks[i].result = store[e.id]
           /\ store[e.id].meta.recursion_depth # depth

\* C6: of two successive runs with ignore_cached false, over the same ingestion
\* run and analysis type: for every fingerprint that both runs yield a result for
\* (and that no two tasks of one wave share), all results yielded for it are one
\* row, and the agent was called for it exactly once over both runs.
KeysOf(o) == {Innermost(o[k].value).input_agent_ids : k \in DOMAIN o}

IdsFor(o, key) ==
    {Innermost(o[k].value).id : k \in {n \in DOMAIN o : Innermost(o[n].value).input_agent_ids = key}}

SharedInWave(key) ==
    \E e1, e2 \in events :
        /\ e1.op = "begin" /\ e2.op = "begin"
        /\ e1.key = key /\ e2.key = key
        /\ e1.run = e2.run /\ e1.depth = e2.depth /\ e1.index = e2.index
        /\ e1.slot # e2.slot

C6_CacheIdempotence ==
    (runNo = 2 /\ ~runLog[1].ignore_cached /\ ~ignore_cached)
    => \A key \in KeysOf(runLog[1].out) \cap KeysOf(out) :
           ~SharedInWave(key)
           => /\ Cardinality(IdsFor(runLog[1].out, key) \cup IdsFor(out, key)) = 1
              /\ Cardinality({e \in events : e.op = "agent" /\ e.key = key}) = 1

C6_Witness ==
    /\ runNo = 2 /\ ~runLog[1].ignore_cached /\ ~ignore_cached
    /\ pc \in Terminal
    /\ Len(out) = 2 /\ Len(runLog[1].out) = 2
    /\ KeysOf(out) = KeysOf(runLog[1].out)
    /\ \A key \in KeysOf(out) : ~SharedInWave(key)

\* C7: serialize_agent_ids gives two orderings of the same ids the same
\* fingerprint, and two lists with different id sets different fingerprints.
C7_FingerprintDeterminism ==
    pc = "Fingerprinted"
    => /\ (Len(fpA) = Len(fpB) /\ \A x \in FpIds : Count(x, fpA) = Count(x, fpB))
          => fpKeyA = fpKeyB
       /\ Range(fpA) # Range(fpB) => fpKeyA # fpKeyB

C7_Witness ==
    /\ pc = "Fingerprinted"
    /\ fpA = <<3, 1, 2>> /\ fpB = <<1, 2, 3>>
    /\ fpKeyA = <<"1", ",", "2", ",", "3">>
    /\ fpKeyB = fpKeyA

\* C8: every item the consumer receives, from any depth d, is a pair of a result
\* of the inner stage at depth d and the materialized input list of depth d.
C8_YieldsResultWithInputList ==
    \A k \in DOMAIN out :
        /\ out[k].value.type = "tuple"
        /\ out[k].value.first.type = "BatchAnalysisRecord"
        /\ out[k].value.second = hist[out[k].depth].input_list

\* C9: _run entered with depth >= max_depth fails before it materializes its
\* input, runs the inner stage, or calls the stopper or the mapper at that depth;
\* no task is started and nothing is yielded at that depth.
NoWorkAt(d) ==
    /\ hist[d].materialized = 0 /\ hist[d].inner = 0
    /\ hist[d].stopper = 0 /\ hist[d].mapper = 0
    /\ OutAtDepth(out, d) = {}
    /\ \A e \in events : ~(e.run = runNo /\ e.depth = d)

C9_DepthGuard ==
    /\ \A d \in 0..MaxMaxDepth : d >= max_depth => NoWorkAt(d)
    /\ hist[max_depth].entered = 1 => pc = "MaxDepthExceeded" /\ depth = max_depth
    /\ pc = "MaxDepthExceeded" => depth = max_depth /\ hist[max_depth].entered = 1

C9_Witness ==
    /\ pc = "MaxDepthExceeded"
    /\ max_depth = 2 /\ depth = 2
    /\ hist[0].inner = 1 /\ hist[1].inner = 1
    /\ Len(out) >= 2

\* C10: the stopper is called once per depth, after the last result of that depth
\* was yielded; when it answers true the run ends with no mapper call and no
\* deeper _run, when it answers false the mapper is called once and _run is
\* entered once at the next depth; so the depth reached is the number of depths
\* whose stopper answered false.
C10_Decisions ==
    /\ \A d \in 0..MaxMaxDepth :
          /\ hist[d].stopper <= 1 /\ hist[d].entered <= 1
          /\ (hist[d].decision = "none") = (hist[d].stopper = 0)
          /\ hist[d].decision = "stop"
                => /\ Cardinality(OutAtDepth(out, d)) <= stop_limit
                   /\ hist[d].mapper = 0
                   /\ pc = "Stopped" /\ depth = d
                   /\ \A e \in 0..MaxMaxDepth : e > d => hist[e].entered = 0
          /\ hist[d].decision = "go"
                => /\ Cardinality(OutAtDepth(out, d)) > stop_limit
                   /\ hist[d].mapper = 1
                   /\ depth > d
                   /\ hist[d + 1].entered = 1 \/ (pc = "Enter" /\ depth = d + 1)
    /\ depth = Cardinality({d \in 0..MaxMaxDepth : hist[d].decision = "go"})

C10_NoResultAfterStopper ==
    [][Len(out') > Len(out) => hist[out'[Len(out')].depth].stopper = 0]_vars

C10_StopDecision == C10_NoResultAfterStopper /\ []C10_Decisions

C10_Witness ==
    /\ pc = "Stopped"
    /\ depth = 1
    /\ stop_limit = 1
    /\ hist[0].decision = "go" /\ hist[1].decision = "stop"
    /\ Cardinality(OutAtDepth(out, 0)) = 2
    /\ Cardinality(OutAtDepth(out, 1)) = 1

\* ------------------------------------------------- batch formation, C11..C14
FormationDone == pc \in {"Waves", "Running", "Yielding", "Drained"}

Accepted(list) == SelectSeq(list, LAMBDA x : ItemId(x) \in filter_agents)

Pulled == SubSeq(hist[depth].input_list, 1, pos)

\* C11: once max_batches batches are sealed, batch formation pulls no further
\* item from its input.
C11_NoPullAfterCap == [][pos' > pos => Len(batches) < max_batches]_vars

\* C12: every sealed batch has at most batch_size items, every batch but the last
\* exactly batch_size, and the last one is undersized only when the input was
\* exhausted with fewer than max_batches batches sealed before it.
C12_BatchSizes ==
    /\ \A k \in DOMAIN batches :
          /\ Len(batches[k]) <= batch_size
          /\ k < Len(batches) => Len(batches[k]) = batch_size
    /\ (FormationDone /\ batches # <<>> /\ Len(batches[Len(batches)]) < batch_size)
          => /\ pos = Len(hist[depth].input_list)
             /\ Len(batches) - 1 < max_batches

\* C13: the batches hold exactly the accepted items among the items pulled, in
\* input order, a rejected item in none of them; while the loop runs every sealed
\* batch has exactly batch_size accepted items and the running batch fewer.
C13_OnlyAcceptedItems ==
    /\ pc = "Forming"
          => /\ Concat(batches) \o current_batch = Accepted(Pulled)
             /\ Len(current_batch) < batch_size
             /\ \A k \in DOMAIN batches : Len(batches[k]) = batch_size
    /\ FormationDone
          => /\ Concat(batches) = Accepted(Pulled)
             /\ \A k \in DOMAIN batches : \A n \in DOMAIN batches[k] :
                    ItemId(batches[k][n]) \in filter_agents

C13_Witness ==
    /\ FormationDone
    /\ input = <<2, 1, 2>>
    /\ filter_agents = {2}
    /\ batch_size = 2
    /\ batches = << <<2, 2>> >>

\* C14: a run of the batching stage over an input with no accepted item (an empty
\* input included) seals no batch, starts no task, yields nothing and does not
\* fail.
NoAccepted(list) == \A k \in DOMAIN list : ItemId(list[k]) \notin filter_agents

PlaceIn(s, x) == CHOOSE k \in DOMAIN s : s[k] = x

\* C15: the results of a wave are yielded in the order in which its tasks
\* completed, and a result of a wave is yielded only when every result of the
\* waves before it has been yielded.
C15_YieldsInCompletionOrder ==
    [][\A i \in yielded' \ yielded :
          /\ \A j \in (DOMAIN tasks) \ yielded' :
                 PlaceIn(completed, i) < PlaceIn(completed, j)
          /\ Cardinality(OutAtDepth(out, depth)) = index + Cardinality(yielded)]_vars

\* ------------------------------------------------------ laziness, C16
\* the tasks of the batching run at depth d of this invocation that have started
BegunAt(d) == {e \in events : e.op = "begin" /\ e.run = runNo /\ e.depth = d}

Delivered(d) == Cardinality(OutAtDepth(out, d))

InBatchingRun == pc = "Forming" \/ FormationDone

C16_OneWaveAhead ==
    InBatchingRun
    => /\ Cardinality(BegunAt(depth)) - Delivered(depth) <= concurrency
       /\ Cardinality(BegunAt(depth)) <= index + concurrency
       /\ Delivered(depth) >= Min(index, Len(batches))
       /\ pc = "Forming" => BegunAt(depth) = {} /\ Delivered(depth) = 0

C16_SealedBeforeWork ==
    [][(InBatchingRun /\ batches' # batches) => pc = "Forming"]_vars

IsPrefix(a, b) == Len(a) <= Len(b) /\ SubSeq(b, 1, Len(a)) = a

\* C17: the output of (stageA | stageB).run(input, metadata) is the output of
\* stageB.run over the output of stageA.run(input, metadata), item for item and
\* in order, both stages run with the metadata given to the composed run.
C17_ComposedIsSecondOverFirst ==
    LET expected == StageRun(stageB, StageRun(stageA, cInput, cMetadata), cMetadata)
    IN  /\ cpc \in {"Running", "Ended"}
              => /\ IsPrefix(cOut, expected)
                 /\ stream.metadata = cMetadata
                 /\ second.metadata = cMetadata
        /\ cpc = "Ended" => cOut = expected

C17_Witness ==
    /\ cpc = "Ended"
    /\ stageA = "dup" /\ stageB = "pairs"
    /\ cInput = << <<1>>, <<2>> >>
    /\ cOut = << <<1, 1>>, <<2, 2>> >>

\* ------------------------------------------------------ stored metadata, C18
StageDefaults ==
    [batch_size |-> batch_size, max_batches |-> max_batches, concurrency |-> concurrency,
     ignore_cached |-> ignore_cached, model |-> "o3-mini"]

\* C18: the meta of every row a task inserts has the keys of the stage's defaults
\* (extra_metadata included) and of the metadata passed to run, each key with the
\* value passed to run when run was passed one, else with the default; what the
\* caller of the pipeline passed is among it, the depth tag excepted.
C18_MetadataMerge ==
    \A e \in events :
        (e.op = "insert" /\ e.run = runNo /\ e.depth + 1 \in DOMAIN frames)
        => LET passed == frames[e.depth + 1].metadata
               meta == store[e.id].meta
           IN  /\ DOMAIN meta = (DOMAIN StageDefaults) \cup (DOMAIN passed)
               /\ \A k \in DOMAIN meta :
                      meta[k] = IF k \in DOMAIN passed THEN passed[k] ELSE StageDefaults[k]
               /\ \A k \in (DOMAIN caller_metadata) \ {"recursion_depth"} :
                      meta[k] = caller_metadata[k]
               /\ meta.recursion_depth = e.depth

C18_Witness ==
    /\ caller_metadata = [batch_size |-> 99, origin |-> "cli"]
    /\ batch_size = 2
    /\ \E e \in events :
           /\ e.op = "insert" /\ e.run = runNo /\ e.depth + 1 \in DOMAIN frames
           /\ e.depth = 1
           /\ store[e.id].meta.batch_size = 99
           /\ store[e.id].meta.origin = "cli"
           /\ store[e.id].meta.max_batches = max_batches
           /\ store[e.id].meta.model = "o3-mini"

\* ------------------------------------------------- after a failed run, C19, C20
RowsOfRun(n) == {e.id : e \in {i \in events : i.op = "insert" /\ i.run = n}}

RerunAfterFailure == runNo = 2 /\ runLog[1].outcome = "Failed" /\ ~ignore_cached

\* C19: in a run with ignore_cached false that follows a failed run over the same
\* input, the agent is called for no batch of which the failed run stored a row;
\* it is called only for batches that have no row in the table when their task
\* starts.
C19_NoAgentForPersisted ==
    RerunAfterFailure
    => \A e \in events :
           (e.op = "agent" /\ e.run = 2)
           => \A k \in RowsOfRun(1) : store[k].input_agent_ids # e.key

C19_AgentOnlyOnMiss ==
    [][RerunAfterFailure
          => \A e \in events' \ events :
                 e.op = "agent"
                 => \A k \in DOMAIN store : store[k].input_agent_ids # e.key]_vars

C19_RerunReusesPersisted == C19_AgentOnlyOnMiss /\ []C19_NoAgentForPersisted

C19_Witness ==
    /\ RerunAfterFailure
    /\ RowsOfRun(1) # {}
    /\ \E e \in events : e.op = "hit" /\ e.run = 2 /\ e.id \in RowsOfRun(1)
    /\ \E e \in events :
           /\ e.op = "agent" /\ e.run = 2
           /\ \E f \in events : f.op = "agent" /\ f.run = 1 /\ f.key = e.key

\* C20: when the run has failed in the wave at loop index n, the consumer has
\* received the results of all n batches of the waves before, and every row a
\* task inserted is in the table as it was inserted; no step, the failing one
\* included, takes a result back from the consumer or a row out of the table.
C20_KeptAtFailure ==
    /\ pc = "Failed"
          => /\ Delivered(depth) = index
             /\ \A n \in 1..index : \E k \in OutAtDepth(out, depth) :
                    Innermost(out[k].value).input_agent_ids = BatchKey(batches[n])
    /\ \A e \in events :
          e.op = "insert"
          => /\ e.id \in DOMAIN store
             /\ store[e.id].id = e.id
             /\ store[e.id].input_agent_ids = e.key

C20_NothingRetracted ==
    [][/\ IsPrefix(store, store')
       /\ runNo' = runNo => IsPrefix(out, out')
       /\ pc' = "Failed" => (out' = out /\ store' = store)]_vars

C20_EarlierWavesKept == C20_NothingRetracted /\ []C20_KeptAtFailure

C20_Witness ==
    /\ pc = "Failed"
    /\ concurrency = 2
    /\ index = 2
    /\ Len(out) = 2
    /\ Len(store) = 2
    /\ \E i \in DOMAIN tasks : tasks[i].pc = "failed"

\* ------------------------------------------------- the duplicate insert, C21
InsertsOf(key) == {e \in events : e.op = "insert" /\ e.key = key}

SameWave(e1, e2) == e1.run = e2.run /\ e1.depth = e2.depth /\ e1.index = e2.index

\* C21: two tasks of one wave with the same lookup key can both miss the cache
\* and both insert, which leaves two rows for the key and fails no task; with
\* ignore_cached false this is the only way a key comes to have two rows: the
\* tasks that inserted them are tasks of one wave.
C21_TwoRowsOnlyFromOneWave ==
    ~ignore_cached
    => \A e1, e2 \in events :
           (e1.op = "insert" /\ e2.op = "insert" /\ e1.key = e2.key /\ e1.id # e2.id)
           => SameWave(e1, e2) /\ e1.slot # e2.slot

C21_DuplicateInsertSucceeds ==
    [][\A k \in (DOMAIN store') \ (DOMAIN store) :
          (\E j \in DOMAIN store : store[j].input_agent_ids = store'[k].input_agent_ids)
          => /\ pc' = "Running"
             /\ \E i \in DOMAIN tasks' : tasks'[i].pc = "done" /\ tasks'[i].result = store'[k]]_vars

C21_BenignRace == C21_DuplicateInsertSucceeds /\ []C21_TwoRowsOnlyFromOneWave

C21_Witness ==
    /\ ~ignore_cached
    /\ pc = "Drained"
    /\ Len(store) = 2
    /\ store[1].input_agent_ids = store[2].input_agent_ids
    /\ store[1].analysis_type = store[2].analysis_type
    /\ store[1].ingestion_run_id = store[2].ingestion_run_id
    /\ \E e1, e2 \in events :
           /\ e1.op = "agent" /\ e2.op = "agent" /\ e1.key = store[1].input_agent_ids
           /\ e2.key = e1.key /\ SameWave(e1, e2) /\ e1.slot # e2.slot
    /\ Len(out) = 2
    /\ Innermost(out[1].value).id # Innermost(out[2].value).id

\* ------------------------------------------------- one depth at a time, C22
StartedAt(d) ==
    \/ hist[d].entered > 0
    \/ OutAtDepth(out, d) # {}
    \/ \E e \in events : e.run = runNo /\ e.depth = d

\* C22: whatever happens at depth d+1 happens after the inner stage of depth d
\* has yielded the result of every batch and the stopper of depth d has been
\* evaluated; the tasks in flight are tasks of the deepest depth entered.
C22_DeeperOnlyAfterDecision ==
    /\ \A d \in 0..(MaxMaxDepth - 1) :
          StartedAt(d + 1)
          => hist[d].inner = 1 /\ hist[d].stopper = 1 /\ hist[d].decision = "go"
    /\ InFlight # {}
          => /\ pc = "Running"
             /\ \A d \in 0..MaxMaxDepth :
                    /\ d < depth => hist[d].decision = "go"
                    /\ d > depth => ~StartedAt(d)

C22_EnteredWhenDrained ==
    [][\A d \in 0..(MaxMaxDepth - 1) :
          hist'[d + 1].entered > hist[d + 1].entered
          => /\ pc = "Enter" /\ depth = d + 1
             /\ hist[d].stopper = 1
             /\ InFlight = {}
             /\ index >= Len(batches)
             /\ Delivered(d) = Len(batches)]_vars

C22_DepthsInSequence == C22_EnteredWhenDrained /\ []C22_DeeperOnlyAfterDecision

C22_Witness ==
    /\ pc = "Running"
    /\ depth = 1
    /\ InFlight # {}
    /\ concurrency = 2
    /\ Cardinality(InFlight) = 2
    /\ Delivered(0) = 2
    /\ hist[0].decision = "go"

\* ------------------------------------------- the recursion state machine, C23
\* the state of the recursion stage: Called is _run(input, metadata, 0) not yet
\* past its depth guard, Recursing the same for a recursive call
RecState ==
    CASE pc \in {"RunInner", "Forming", "Waves", "Running", "Yielding"}
              -> [s |-> "Running", d |-> depth]
      [] pc = "Drained" -> [s |-> "Draining", d |-> depth]
      [] pc = "Enter" -> [s |-> IF depth = 0 THEN "Called" ELSE "Recursing", d |-> depth]
      [] pc = "Stopped" -> [s |-> "StoppedByPredicate", d |-> depth]
      [] pc = "MaxDepthExceeded" -> [s |-> "MaxDepthExceeded", d |-> depth]
      [] OTHER -> [s |-> "Failed", d |-> depth]

ListedTransition(a, b) ==
    \/ a.s = "Called" /\ b.s = "Running" /\ b.d = 0
    \/ a.s = "Running" /\ b.s = "Draining" /\ b.d = a.d
    \/ a.s = "Draining" /\ b.s = "StoppedByPredicate" /\ b.d = a.d
    \/ a.s = "Draining" /\ b.s = "Recursing" /\ b.d = a.d + 1
    \/ a.s = "Recursing" /\ b.s = "Running" /\ b.d = a.d
    \/ a.s = "Recursing" /\ b.s = "MaxDepthExceeded" /\ b.d = a.d

DepthStepsByOne ==
    /\ depth' \in {depth, depth + 1}
    /\ depth' = depth + 1 <=> (RecState.s = "Draining" /\ RecState'.s = "Recursing")

\* C23 as stated: the run starts in Running(0) and only takes the transitions
\* Running(d) -> Draining(d) -> StoppedByPredicate | Recursing(d+1) and
\* Recursing(d+1) -> Running(d+1) | MaxDepthExceeded; the depth grows by one per
\* recursive call and never otherwise.
C23_OnlyListedTransitions ==
    [][/\ RecState' # RecState => ListedTransition(RecState, RecState')
       /\ DepthStepsByOne]_vars

\* C23 as amended: besides the listed transitions the run may leave Running(d)
\* as failed, when the inner stage raises, and the first call meets the depth
\* guard like a recursive one: it ends as MaxDepthExceeded when max_depth is 0.
C23_ListedOrFailedOrGuarded ==
    [][/\ RecState' # RecState
          => \/ ListedTransition(RecState, RecState')
             \/ RecState.s = "Running" /\ RecState'.s = "Failed" /\ RecState'.d = RecState.d
             \/ /\ RecState.s = "Called" /\ RecState'.s = "MaxDepthExceeded"
                /\ RecState'.d = 0 /\ max_depth = 0
       /\ DepthStepsByOne]_vars

C23_Witness ==
    /\ pc = "Failed"
    /\ depth = 1
    /\ hist[0].decision = "go"
    /\ hist[1].inner = 1
    /\ \E i \in DOMAIN tasks : tasks[i].pc = "failed"

\* ------------------------------------------------------- termination, C24
RECURSIVE InnerRunsUpTo(_)
InnerRunsUpTo(d) == hist[d].inner + (IF d = 0 THEN 0 ELSE InnerRunsUpTo(d - 1))

InnerRuns == InnerRunsUpTo(MaxMaxDepth)

RejectedAsEmpty(i) ==
    /\ tasks[i].pc = "failed"
    /\ tasks[i].key = <<>>

\* C25: batch formation seals no empty batch and no task is handed one, so no
\* task ends at the empty check: a task that failed had a batch, computed its
\* fingerprint and called a collaborator.
C25_NoEmptyBatch ==
    /\ \A k \in DOMAIN batches : Len(batches[k]) >= 1
    /\ \A i \in DOMAIN tasks :
          /\ Len(tasks[i].batch) >= 1
          /\ ~RejectedAsEmpty(i)
          /\ tasks[i].pc \notin {"created", "cancelled"}
                => tasks[i].key = BatchKey(tasks[i].batch)

\* the input ends exactly on a full batch: the trailing seal has nothing to add,
\* and every task of the last wave was handed a batch and a collaborator failed
C25_Witness ==
    /\ pc = "Running"
    /\ depth = 0
    /\ Len(input) = 2
    /\ batch_size = 1
    /\ max_batches = MaxMaxBatches
    /\ pos = Len(input)
    /\ current_batch = <<>>
    /\ Len(batches) = 2
    /\ Len(tasks) = 2
    /\ tasks[1].pc = "failed"
    /\ tasks[2].pc = "done"

\* ------------------------------------------------- the table only grows, C26
\* the rows a finished run delivered to its consumer
DeliveredRows(o) == {Innermost(o[k].value) : k \in DOMAIN o}

\* C26, the rows: every row of the table is the row that was inserted under its
\* id, and every row a run of this or an earlier invocation delivered, read from
\* the table or inserted, is still in the table unchanged.
C26_RowsAsInserted ==
    /\ \A k \in DOMAIN store : store[k].id = k
    /\ \A r \in DeliveredRows(out) : r.id \in DOMAIN store /\ store[r.id] = r
    /\ \A n \in DOMAIN runLog :
          \A r \in DeliveredRows(runLog[n].out) : r.id \in DOMAIN store /\ store[r.id] = r

\* C26, the steps: a step either leaves the table alone or adds one row with a
\* fresh id at its end, and the step that adds is a task's insert.
C26_StepAppendsOrKeeps ==
    [][\/ store' = store
       \/ /\ Len(store') = Len(store) + 1
          /\ \A k \in DOMAIN store : store'[k] = store[k]
          /\ \A k \in DOMAIN store : store[k].id # store'[Len(store')].id
          /\ \E i \in DOMAIN tasks : tasks[i].pc = "top" /\ tasks'[i].pc = "done"]_vars

\* C26: no operation modifies or deletes a row of the table.
C26_ArtifactsImmutable == C26_StepAppendsOrKeeps /\ []C26_RowsAsInserted

\* a second invocation with ignore_cached recomputed a batch the first one had
\* inserted: both rows are in the table
C26_Witness ==
    /\ runNo = 2
    /\ ignore_cached
    /\ pc = "Stopped"
    /\ Len(store) = 2
    /\ store[1].input_agent_ids = store[2].input_agent_ids
    /\ RowsOfRun(1) = {1}
    /\ RowsOfRun(2) = {2}
    /\ DeliveredRows(runLog[1].out) = {store[1]}
    /\ DeliveredRows(out) = {store[2]}

\* -------------------------------------------------------------- no retry, C27
\* how far a work unit has got: not begun, awaiting Analyze, awaiting SelectTop,
\* over
Progress(t) ==
    CASE t.pc = "created" -> 0
      [] t.pc = "agent" -> 1
      [] t.pc = "top" -> 2
      [] OTHER -> 3

SomeTaskFailed == \E i \in DOMAIN tasks : tasks[i].pc = "failed"

\* C27, one work unit: while its wave runs a work unit only moves forward; it
\* comes to await Analyze from its first step only and SelectTop from Analyze
\* only, so each is called once at most, and a work unit that is over stays as
\* it ended.
C27_WorkUnitOnlyAdvances ==
    [][pc = "Running"
          => /\ DOMAIN tasks' = DOMAIN tasks
             /\ \A i \in DOMAIN tasks :
                   /\ tasks'[i].batch = tasks[i].batch
                   /\ Progress(tasks'[i]) >= Progress(tasks[i])
                   /\ (tasks'[i].pc = "agent" /\ tasks[i].pc # "agent")
                         => tasks[i].pc = "created"
                   /\ (tasks'[i].pc = "top" /\ tasks[i].pc # "top")
                         => tasks[i].pc = "agent"
                   /\ Progress(tasks[i]) = 3 => tasks'[i] = tasks[i]]_vars

\* C27, the run: once a work unit has failed it stays failed, no further wave is
\* started in that run and the work units of its wave keep their batches, so
\* the batch of the failed work unit is handed to no other work unit.
C27_NothingStartsAfterFailure ==
    [][SomeTaskFailed
          => /\ runNo' = runNo
             /\ index' = index
             /\ batches' = batches
             /\ DOMAIN tasks' = DOMAIN tasks
             /\ \A i \in DOMAIN tasks :
                   /\ tasks'[i].batch = tasks[i].batch
                   /\ tasks[i].pc = "failed" => tasks'[i] = tasks[i]]_vars

\* C27: no retry.
C27_NoRetry == C27_WorkUnitOnlyAdvances /\ C27_NothingStartsAfterFailure

\* SelectTop failed after Analyze had answered, the other work unit of the wave
\* was cancelled before its first step, and the run failed
C27_Witness ==
    /\ pc = "Failed"
    /\ Len(tasks) = 2
    /\ tasks[1].pc = "failed"
    /\ Event("top", 1, tasks[1].key, 0) \in events
    /\ tasks[2].pc = "cancelled"
    /\ tasks[2].key = <<>>
    /\ Len(batches) > index + 2

\* ------------------------------------- Analyze, SelectTop, then the insert, C28
\* the events of the work unit in slot i of the current wave
EventsOfSlot(i) ==
    {e \in events : e.run = runNo /\ e.depth = depth /\ e.index = index /\ e.slot = i}

OpsOfSlot(i) == {e.op : e \in EventsOfSlot(i)}

\* C28, the order: a work unit calls Analyze in its first step and only when it
\* does not return a row it found; it calls SelectTop only when Analyze has
\* answered, and with that answer; a row is added only by a work unit awaiting
\* SelectTop, and the row carries the batch's fingerprint and Analyze's answer.
C28_AnalyzeSelectTopInsert ==
    [][pc = "Running" /\ DOMAIN tasks' = DOMAIN tasks
          => /\ \A i \in DOMAIN tasks :
                   /\ (tasks[i].pc # "agent" /\ tasks'[i].pc = "agent")
                         => /\ tasks[i].pc = "created"
                            /\ \/ ignore_cached
                               \/ \A k \in DOMAIN store :
                                     store[k].input_agent_ids # tasks'[i].key
                   /\ (tasks[i].pc # "top" /\ tasks'[i].pc = "top")
                         => /\ tasks[i].pc = "agent"
                            /\ tasks'[i].analysis \in agent_answers
                            /\ store' = store
                   /\ (tasks[i].pc = "top" /\ tasks'[i].pc = "top")
                         => tasks'[i].analysis = tasks[i].analysis
             /\ \A k \in (DOMAIN store') \ (DOMAIN store) :
                   \E i \in DOMAIN tasks :
                       /\ tasks[i].pc = "top"
                       /\ tasks'[i].pc = "done"
                       /\ tasks'[i].result = store'[k]
                       /\ store'[k].analysis = tasks[i].analysis
                       /\ store'[k].input_agent_ids = BatchKey(tasks[i].batch)]_vars

\* C28, the failures: a work unit that failed or was cancelled has added no row;
\* one that added a row had called Analyze and SelectTop; the table has one row
\* for each insert and no other.
C28_NoInsertWithoutBoth ==
    /\ \A i \in DOMAIN tasks :
          /\ tasks[i].pc \in {"failed", "cancelled"} => "insert" \notin OpsOfSlot(i)
          /\ "insert" \in OpsOfSlot(i)
                => /\ {"agent", "top"} \subseteq OpsOfSlot(i)
                   /\ tasks[i].pc = "done"
          /\ "hit" \in OpsOfSlot(i) => OpsOfSlot(i) = {"begin", "hit"}
    /\ {e.id : e \in {x \in events : x.op = "insert"}} = DOMAIN store

\* C28: Analyze, then SelectTop with its text, then the insert; nothing is
\* inserted by a work unit that failed or was cancelled.
C28_InsertOnlyAfterBoth == C28_AnalyzeSelectTopInsert /\ []C28_NoInsertWithoutBoth

\* a wave of two whose agent gave different answers: the first work unit
\* inserted its row, the second failed in SelectTop and inserted nothing
C28_Witness ==
    /\ pc = "Failed"
    /\ Len(tasks) = 2
    /\ tasks[1].pc = "done"
    /\ tasks[1].analysis = "t2"
    /\ tasks[2].pc = "failed"
    /\ tasks[2].analysis = "t1"
    /\ "top" \in OpsOfSlot(2)
    /\ Len(store) = 1
    /\ store[1].analysis = "t2"
    /\ store[1].input_agent_ids = tasks[1].key

\* ------------------------------------------------------ the depth tag, C29
\* C29: the metadata _run holds at depth d, and the metadata its inner stage
\* runs with, have recursion_depth = d whatever the caller passed under that
\* key, and every row inserted at depth d has recursion_depth = d in its meta,
\* also once the run is over.
C29_DepthTag ==
    /\ \A k \in DOMAIN frames :
          /\ "recursion_depth" \in DOMAIN frames[k].metadata
          /\ frames[k].metadata.recursion_depth = k - 1
    /\ (InBatchingRun /\ pc # "Failed")
          => /\ "recursion_depth" \in DOMAIN metadata
             /\ metadata.recursion_depth = depth
    /\ \A e \in events :
          e.op = "insert"
          => /\ "recursion_depth" \in DOMAIN store[e.id].meta
             /\ store[e.id].meta.recursion_depth = e.depth

\* the caller passed recursion_depth = 5; rows were inserted at depth 0 and at
\* depth 1
C29_Witness ==
    /\ "recursion_depth" \in DOMAIN caller_metadata
    /\ caller_metadata.recursion_depth = 5
    /\ pc \in {"Stopped", "MaxDepthExceeded"}
    /\ \E e0, e1 \in events :
          /\ e0.op = "insert" /\ e0.depth = 0 /\ store[e0.id].meta.recursion_depth = 0
          /\ e1.op = "insert" /\ e1.depth = 1 /\ store[e1.id].meta.recursion_depth = 1

\* ------------------------------------------- batches by input position, C30
\* the positions of the accepted items of a list, in order
AcceptedPositions(list) ==
    SelectSeq([p \in 1..Len(list) |-> p], LAMBDA p : ItemId(list[p]) \in filter_agents)

\* the number of items in the batches before batch b
RECURSIVE Offset(_)
Offset(b) == IF b = 1 THEN 0 ELSE Offset(b - 1) + Len(batches[b - 1])

\* the input position of item n of batch b: batch b takes the accepted positions
\* that follow those of the batches before it
PositionOf(b, n) == AcceptedPositions(hist[depth].input_list)[Offset(b) + n]

Slots == {<<b, n>> : b \in DOMAIN batches, n \in 1..MaxBatchSize}

Places == {s \in Slots : s[2] <= Len(batches[s[1]])}

\* C30: the items of the batches can be given input positions, one each, so that
\* every item is the input item at its position, the positions grow through a
\* batch and from one batch to the next (no position is in two batches, nothing
\* is reordered), and they are the first accepted positions of the input with
\* none left out; once formation is over they are all the accepted positions
\* among the items consumed.
C30_BatchesPartitionPrefix ==
    InBatchingRun
    => LET list == hist[depth].input_list
           acc == AcceptedPositions(list)
           total == Offset(Len(batches) + 1)
       IN  /\ total <= Len(acc)
           /\ \A s \in Places :
                 /\ batches[s[1]][s[2]] = list[PositionOf(s[1], s[2])]
                 /\ \A t \in Places :
                       (s[1] < t[1] \/ (s[1] = t[1] /\ s[2] < t[2]))
                       => PositionOf(s[1], s[2]) < PositionOf(t[1], t[2])
           /\ {PositionOf(s[1], s[2]) : s \in Places} = {acc[k] : k \in 1..total}
           /\ FormationDone
                 => {PositionOf(s[1], s[2]) : s \in Places}
                       = {p \in 1..pos : ItemId(list[p]) \in filter_agents}

\* two batches with the same content from two positions of the input, a
\* rejected item between them
C30_Witness ==
    /\ FormationDone
    /\ depth = 0
    /\ input = <<2, 1, 2>>
    /\ filter_agents = {2}
    /\ batch_size = 1
    /\ batches = << <<2>>, <<2>> >>
    /\ PositionOf(1, 1) = 1
    /\ PositionOf(2, 1) = 3

\* ------------------------------------- one work unit and one row per batch, C31
\* the loop index of the wave of batch n, and its slot in that wave
WaveOf(n) == ((n - 1) \div concurrency) * concurrency

SlotOf(n) == ((n - 1) % concurrency) + 1

BeginsHere == {e \in events : e.op = "begin" /\ e.run = runNo /\ e.depth = depth}

\* the results the inner stage yielded for the wave at loop index w
ResultsOfWave(w) ==
    SubSeq(frames[depth + 1].results, w + 1, Min(w + concurrency, Len(batches)))

KeysIn(rows) == [k \in DOMAIN rows |-> rows[k].input_agent_ids]

BatchKeysOfWave(w) ==
    [k \in 1..(Min(w + concurrency, Len(batches)) - w) |-> BatchKey(batches[w + k])]

\* C31: when the batching stage has been drained without a failure, the work
\* units begun in the run are one per sealed batch, batch n in slot SlotOf(n) of
\* the wave at loop index WaveOf(n) and under that batch's fingerprint, and the
\* stage has yielded one row per batch: for every wave, the fingerprints of the
\* rows yielded for it are those of its batches, each as often.
C31_OneWorkUnitOneRowPerBatch ==
    pc = "Drained"
    => /\ {<<e.index, e.slot>> : e \in BeginsHere}
             = {<<WaveOf(n), SlotOf(n)>> : n \in DOMAIN batches}
       /\ \A e \in BeginsHere : e.key = BatchKey(batches[e.index + e.slot])
       /\ Len(frames[depth + 1].results) = Len(batches)
       /\ \A n \in DOMAIN batches :
             LET w == WaveOf(n)
             IN  /\ Len(BatchKeysOfWave(w)) <= concurrency
                 /\ Count(BatchKey(batches[n]), KeysIn(ResultsOfWave(w)))
                       = Count(BatchKey(batches[n]), BatchKeysOfWave(w))

\* three batches in waves of two and one, all drained
C31_Witness ==
    /\ pc = "Drained"
    /\ depth = 0
    /\ concurrency = 2
    /\ Len(batches) = 3
    /\ batches[1] # batches[2]
    /\ Len(out) = 3
    /\ \E e \in BeginsHere : e.index = 2 /\ e.slot = 1

\* --------------------------------------- rows of the failing wave, C32
InsertsOfRun == {e \in events : e.op = "insert" /\ e.run = runNo}

EarlierWave(e) == e.depth < depth \/ (e.depth = depth /\ e.index < index)

FailingWave(e) == e.depth = depth /\ e.index = index

\* C32 as stated: when the run has failed, every row the run inserted was
\* inserted in a wave before the failing one and was yielded.
C32_NoRowLeftUnyielded ==
    pc = "Failed"
    => \A e \in InsertsOfRun :
          /\ EarlierWave(e)
          /\ store[e.id] \in DeliveredRows(out)

\* C32 as amended: when the run has failed, every row the run inserted was
\* either inserted in a wave before the failing one, and then it was yielded, or
\* inserted by a work unit of the failing wave that finished before the failure,
\* and then it was not yielded; the failing wave has at least one work unit that
\* inserted nothing.
C32_UnyieldedOnlyFromFailingWave ==
    pc = "Failed"
    => /\ \A e \in InsertsOfRun :
             \/ /\ EarlierWave(e)
                /\ store[e.id] \in DeliveredRows(out)
             \/ /\ FailingWave(e)
                /\ store[e.id] \notin DeliveredRows(out)
                /\ tasks[e.slot].pc = "done"
                /\ tasks[e.slot].result = store[e.id]
       /\ Cardinality({e \in InsertsOfRun : FailingWave(e)}) < Len(tasks)

\* depth 0 was drained and its rows yielded; at depth 1 one work unit inserted
\* its row before the other failed
C32_Witness ==
    /\ pc = "Failed"
    /\ depth = 1
    /\ \E e \in InsertsOfRun : e.depth = 0 /\ store[e.id] \in DeliveredRows(out)
    /\ \E e \in InsertsOfRun :
          /\ FailingWave(e)
          /\ store[e.id] \notin DeliveredRows(out)
    /\ \E i \in DOMAIN tasks : tasks[i].pc = "failed"

\* ------------------------------- later waves, depths and runs hit the cache, C33
\* ignore_cached of run n of the command
RunIgnoredCache(n) == IF n = runNo THEN ignore_cached ELSE runLog[n].ignore_cached

\* event a belongs to a wave before the wave of event b
WaveBefore(a, b) ==
    \/ a.run < b.run
    \/ a.run = b.run /\ a.depth < b.depth
    \/ a.run = b.run /\ a.depth = b.depth /\ a.index < b.index

SameWorkUnit(a, b) ==
    a.run = b.run /\ a.depth = b.depth /\ a.index = b.index /\ a.slot = b.slot

Inserts == {e \in events : e.op = "insert"}

\* C33: in a run with ignore_cached false, a work unit whose key has a row
\* inserted in an earlier wave, of the same depth, of an earlier depth or of an
\* earlier run, returns a stored row of that key and calls no collaborator and
\* inserts nothing; so a row inserted in such a run has the same key as an older
\* row only when both were inserted by two work units of one wave.
C33_LaterWaveHitsCache ==
    /\ \A b \in events :
          (/\ b.op = "begin"
           /\ ~RunIgnoredCache(b.run)
           /\ \E a \in Inserts : a.key = b.key /\ WaveBefore(a, b))
          => /\ \E h \in events :
                   /\ h.op = "hit" /\ SameWorkUnit(h, b)
                   /\ h.id \in DOMAIN store
                   /\ store[h.id].input_agent_ids = b.key
             /\ \A e \in events :
                   SameWorkUnit(e, b) => e.op \in {"begin", "hit"}
    /\ \A a, b \in Inserts :
          (a.key = b.key /\ a.id < b.id /\ ~RunIgnoredCache(b.run))
          => /\ a.run = b.run /\ a.depth = b.depth /\ a.index = b.index
             /\ a.slot # b.slot

\* the second wave of the first run hit the row of its first wave, and the second
\* run, with ignore_cached false, hit it again
C33_Witness ==
    /\ runNo = 2
    /\ ~ignore_cached
    /\ ~runLog[1].ignore_cached
    /\ Len(store) = 1
    /\ \E h \in events : h.op = "hit" /\ h.run = 1 /\ h.index > 0 /\ h.id = 1
    /\ \E h \in events : h.op = "hit" /\ h.run = 2 /\ h.index > 0 /\ h.id = 1
    /\ pc = "MaxDepthExceeded"

\* ------------------------------ ignore_cached, then the newest row, C34
\* C34, the recomputation: in a run with ignore_cached true no work unit returns
\* a stored row; each one that is over without failure called the agent and
\* identify_top_agents and inserted a row of its own.
C34_IgnoreCachedRecomputes ==
    /\ \A e \in events : RunIgnoredCache(e.run) => e.op # "hit"
    /\ (ignore_cached /\ pc = "Running")
          => \A i \in DOMAIN tasks :
                tasks[i].pc = "done"
                => /\ {"agent", "top", "insert"} \subseteq OpsOfSlot(i)
                   /\ \E e \in EventsOfSlot(i) : e.op = "insert" /\ e.id = tasks[i].result.id

\* C34, the lookup: in an invocation with ignore_cached false that follows one
\* with ignore_cached true, the row a work unit returns from the table is the row
\* inserted last among the rows of its key that are in the table at that moment.
C34_LookupReturnsNewest ==
    [][(runNo = 2 /\ runLog[1].ignore_cached /\ ~ignore_cached)
          => \A h \in events' \ events :
                h.op = "hit"
                => \A k \in DOMAIN store :
                      store[k].input_agent_ids = h.key => k <= h.id]_vars

\* C34: with ignore_cached true every work unit recomputes and inserts, and a
\* later lookup with ignore_cached false returns the most recently created row of
\* the key.
C34_RecomputeThenNewest == C34_LookupReturnsNewest /\ []C34_IgnoreCachedRecomputes

\* ------------------------------- the configuration recorded in a row, C35
\* the configuration the stage works with
UsedConfiguration ==
    [batch_size |-> batch_size, max_batches |-> max_batches,
     concurrency |-> concurrency, ignore_cached |-> ignore_cached]

\* the stage forms batches, schedules waves and decides on the cache by its own
\* configuration, whatever the metadata says
WorksByOwnConfiguration ==
    /\ \A k \in DOMAIN batches : Len(batches[k]) <= batch_size
    /\ Len(tasks) <= concurrency
    /\ \A e \in events : (e.op = "hit" /\ e.run = runNo) => ~ignore_cached

C36_MapsLeftAlone ==
    [][/\ caller_metadata' = caller_metadata
       /\ cMetadata' = cMetadata
       /\ \A k \in (DOMAIN frames) \cap (DOMAIN frames') :
             frames'[k].metadata = frames[k].metadata]_vars

\* C36, the maps: what a stage passes on is built from what it received and
\* differs from it only by the stage's own keys.
C36_NewMapsBuilt ==
    /\ \A k \in DOMAIN frames :
          LET received == IF k = 1 THEN caller_metadata ELSE frames[k - 1].metadata
          IN  /\ DOMAIN frames[k].metadata = (DOMAIN received) \cup {"recursion_depth"}
              /\ \A x \in (DOMAIN received) \ {"recursion_depth"} :
                    frames[k].metadata[x] = received[x]
    /\ (InBatchingRun /\ pc # "Failed")
          => \A x \in DOMAIN frames[depth + 1].metadata :
                metadata[x] = frames[depth + 1].metadata[x]

\* C36: no stage writes to the metadata map it receives.
C36_MetadataNotMutated == C36_MapsLeftAlone /\ []C36_NewMapsBuilt

\* the caller's map still has its own recursion_depth while the frames of depth
\* 0 and 1 and the inner stage hold maps of their own
C36_Witness ==
    /\ caller_metadata = [model |-> "caller", recursion_depth |-> 5]
    /\ depth = 1
    /\ Len(frames) = 2
    /\ frames[1].metadata.recursion_depth = 0
    /\ frames[2].metadata.recursion_depth = 1
    /\ pc = "Running"
    /\ metadata.recursion_depth = 1
    /\ metadata.model = "caller"
    /\ metadata.batch_size = batch_size

\* --------------------------------- what stopper and mapper are given, C37
\* the rows the inner stage yielded at depth d, in the order the consumer got them
DepthYields(d) ==
    LET got == SelectSeq(out, LAMBDA o : o.depth = d)
    IN  [k \in DOMAIN got |-> Innermost(got[k].value)]

\* C37, the steps: the stopper is called on the rows yielded at the current
\* depth, and when it says no the mapper is called on the same rows and its value
\* is the input of the recursive call.
C37_DecisionOnOwnResults ==
    [][(pc = "Drained" /\ pc' # "Drained")
          => /\ frames[depth + 1].results = DepthYields(depth)
             /\ pc' = "Stopped" <=> stopper(DepthYields(depth))
             /\ pc' = "Enter" <=> ~stopper(DepthYields(depth))
             /\ pc' = "Enter"
                   => frames'[depth + 1].sub_input_list = mapper(DepthYields(depth))]_vars

\* C37, the states: the results a frame of _run has collected are the rows
\* yielded at its depth, in yield order, and the input list materialized at depth
\* d + 1 is the mapper's value for the rows yielded at depth d.
C37_ResultsPerDepth ==
    /\ \A k \in DOMAIN frames : frames[k].results = DepthYields(k - 1)
    /\ \A d \in 0..(MaxMaxDepth - 1) :
          hist[d + 1].materialized = 1
          => /\ hist[d].decision = "go"
             /\ hist[d + 1].input_list = mapper(DepthYields(d))

\* C37: stopper and mapper get the results of their own depth, and the next
\* depth's input is the mapper's value.
C37_OwnDepthResults == C37_DecisionOnOwnResults /\ []C37_ResultsPerDepth

\* two rows at depth 0, the mapper's value run at depth 1, where one row was
\* yielded and the stopper said yes
C37_Witness ==
    /\ pc = "Stopped"
    /\ depth = 1
    /\ Len(DepthYields(0)) = 2
    /\ Len(DepthYields(1)) = 1
    /\ hist[1].input_list = mapper(DepthYields(0))
    /\ hist[1].input_list # <<>>
    /\ hist[1].decision = "stop"

\* ------------------------------- what is done when the depth runs out, C38
\* the number of batches a run of the batching stage seals over a list: the
\* accepted items in batches of batch_size; the loop leaves at max_batches, which
\* it tests after an accepted item only
ExpectedBatches(list) ==
    LET accepted == Len(Accepted(list))
        needed == (accepted + batch_size - 1) \div batch_size
    IN  IF accepted = 0 THEN 0
        ELSE IF max_batches = 0 THEN 1
        ELSE Min(needed, max_batches)

\* C38, the state: when _run has raised at the depth guard with max_depth >= 1,
\* the inner stage has run once at each depth below max_depth and at no other,
\* the consumer has one row for every batch of each of those depths, no work
\* unit is left unfinished, and every row inserted in the run is in the table
\* and among the rows the consumer got.
C38_AllDoneBeforeDepthError ==
    (pc = "MaxDepthExceeded" /\ max_depth >= 1)
    => /\ depth = max_depth
       /\ \A d \in 0..MaxMaxDepth :
             IF d < max_depth
             THEN /\ hist[d].inner = 1
                  /\ hist[d].decision = "go"
                  /\ Len(DepthYields(d)) = ExpectedBatches(hist[d].input_list)
             ELSE hist[d].inner = 0 /\ DepthYields(d) = <<>>
       /\ InFlight = {}
       /\ \A e \in InsertsOfRun :
             /\ e.id \in DOMAIN store
             /\ store[e.id].input_agent_ids = e.key
             /\ store[e.id] \in Range(DepthYields(e.depth))

\* C38, the step: raising at the depth guard takes nothing back from the
\* consumer or the table.
C38_ErrorAfterYields ==
    [][(pc' = "MaxDepthExceeded" /\ pc # "MaxDepthExceeded")
          => /\ out' = out
             /\ store' = store
             /\ pc = "Enter"]_vars

\* C38: the depth error comes after the depths below max_depth were run to
\* exhaustion and yielded, and leaves their rows in the table.
C38_DepthErrorKeepsWork == C38_ErrorAfterYields /\ []C38_AllDoneBeforeDepthError

\* the guard raised at depth 2 after rows were inserted and yielded at depth 0
\* and at depth 1
C38_Witness ==
    /\ pc = "MaxDepthExceeded"
    /\ max_depth = 2
    /\ Len(DepthYields(0)) = 2
    /\ Len(DepthYields(1)) >= 1
    /\ \E e \in InsertsOfRun : e.depth = 0
    /\ \E e \in InsertsOfRun : e.depth = 1

PagesUpTo(n) == [k \in 1..n |-> k]

\* C40, the states: fetch_page has been called for pages 1, 2, ... in this
\* order, for at most max_pages - 1 of them (for none when range(1, max_pages)
\* is empty); when it is called for a page the
\* agents of every page before are committed, in page order; no page before the
\* last one fetched was short; and ingest has returned only after a short page or
\* after page max_pages - 1.
C40_SequentialBoundedFetch ==
    /\ fetch_log = PagesUpTo(Len(fetch_log))
    /\ Len(fetch_log) <= (IF max_pages >= 1 THEN max_pages - 1 ELSE 0)
    /\ \A k \in DOMAIN responses : k < Len(fetch_log) => Len(responses[k]) >= page_size
    /\ ipc \in {"Loop", "Persisted", "Returned"} => agent_rows = Concat(responses)
    /\ ipc = "Fetched"
          => agent_rows = Concat(SubSeq(responses, 1, Len(responses) - 1))
    /\ ipc = "Returned"
          => \/ responses # <<>> /\ Len(responses[Len(responses)]) < page_size
             \/ Len(fetch_log) = max_pages - 1
             \/ max_pages = 0 /\ fetch_log = <<>>

\* C40: the pages are fetched in sequence, each committed before the next is
\* fetched, up to the first short page and to page max_pages - 1 at most, and
\* ingest comes to an end.
C40_IngestTerminates ==
    /\ <>(ipc \in {"Returned", "Failed"})
    /\ []C40_SequentialBoundedFetch

\* a full page and a short second one, with a page left in the range
C40_Witness ==
    /\ ipc = "Returned"
    /\ fetch_log = <<1, 2>>
    /\ page_size = 2
    /\ max_pages = 4
    /\ Len(responses[1]) = 2
    /\ Len(responses[2]) = 1
    /\ Len(agent_rows) = 3

====
